---- MODULE Spec2Model ----
(***************************************************************************)
(* The regularization notebook (src/unnamed/part_000) as a state machine.  *)
(*                                                                         *)
(* The notebook is a straight-line script over a kernel namespace.  The    *)
(* namespace is the variable env (a function from Python names to values;  *)
(* a name outside DOMAIN env is unbound), pc is the next statement to run, *)
(* and err is the exception that stopped the run: <<>> while none has,     *)
(* else <<statement, exception>>.  Three history variables record the run: *)
(* trace is the sequence of statements completed so far, and ref0 and      *)
(* held0 are the reference and held-out tables as train_test_split         *)
(* returned them, before any cell overwrote X_train and X_test.            *)
(*                                                                         *)
(* Values.  A DataFrame is [columns, nrows, dtypes, data] with data[c] the *)
(* column c as a sequence of cells; a cell is <<>> (NaN / None) or <<v>>.  *)
(* A numpy array is [nrows, cols] with cols a sequence of columns of plain *)
(* numbers.  Numbers produced by a division are exact rationals <<n, d>>   *)
(* in lowest terms with d > 0 (the notebook computes in float64; the model *)
(* computes the exact quotient, except under SpecFloat, where the scaler's *)
(* float64 operations are carried out with their rounding).  A feature     *)
(* name 'col_cat' is the pair <<col, cat>> and a RangeIndex label i is     *)
(* <<i>>.                                                                  *)
(*                                                                         *)
(* Specifications.  Spec runs the cells that follow the split over the     *)
(* tables the split returns.  SpecTables runs the same cells over tables   *)
(* handed in as arguments, whose columns may come in any order and whose   *)
(* held-out table may lack a column or have one more, and whose reference  *)
(* table may have a column without any value or a column of dtype bool.    *)
(* SpecSplit starts one cell earlier, with X and y loaded, and runs the    *)
(* split first.  SpecFloat runs the two scaler statements on one numeric   *)
(* column in float64 arithmetic.                                           *)
(***************************************************************************)
EXTENDS Integers, Sequences, FiniteSets, TLC

VARIABLES pc, env, err, trace, ref0, held0

vars == <<pc, env, err, trace, ref0, held0>>

(***************************************************************************)
(* Bounds of the model.                                                    *)
(***************************************************************************)
\* rows of the reference (training) table
NRows == 10
\* rows of the held-out (test) table
TestRows == 2
\* rows of the loaded table in the runs that start before the split
LoadRows == 5

\* missing cells at the head of a generated reference column: 0 .. MaxNull
MaxNull == NRows \div 5

(***************************************************************************)
(* Program constants.                                                      *)
(***************************************************************************)
\* null_perc > .1
null_thresh == <<1, 10>>
\* col_series[0]/len(X_train_cat) > .9
dom_thresh == <<9, 10>>
\* SimpleImputer(strategy='constant', fill_value=0)
fill_value == 0
\* fillna(value='missing')
missing_token == "missing"
num_types == {"int64", "float64"}
\* faulty variant: MinMaxScaler(feature_range=(-1, 1))
feature_range_symmetric == <<-1, 1>>

\* MinMaxScaler() default feature_range=(0, 1)
feature_range == <<0, 1>>

(***************************************************************************)
(* Exact rational arithmetic.                                              *)
(***************************************************************************)
Abs(x) == IF x < 0 THEN -x ELSE x

RECURSIVE Gcd(_, _)
Gcd(a, b) == IF b = 0 THEN a ELSE Gcd(b, a % b)

\* the rational n/d in lowest terms with a positive denominator; a float
\* division by zero does not raise: n/0 is <<1, 0>> or <<-1, 0>> (inf) and
\* 0/0 is <<0, 0>> (nan)
Rat(n, d) ==
    LET g == Gcd(Abs(n), Abs(d))
        s == IF d < 0 THEN -1 ELSE 1
    IN  IF g = 0 THEN <<0, 0>> ELSE <<s * (n \div g), s * (d \div g)>>

RatOf(x) == <<x, 1>>
RatAdd(a, b) == Rat(a[1] * b[2] + b[1] * a[2], a[2] * b[2])
RatMul(a, b) == Rat(a[1] * b[1], a[2] * b[2])
\* faulty variant: >= in place of >
RatGe(a, b) == a[1] * b[2] >= b[1] * a[2]

RatGt(a, b) == a[1] * b[2] > b[1] * a[2]
RatLe(a, b) == a[1] * b[2] <= b[1] * a[2]

(***************************************************************************)
(* Sequences.                                                              *)
(***************************************************************************)
Range(s) == {s[i] : i \in DOMAIN s}

RECURSIVE SeqMin(_)
SeqMin(s) ==
    IF Len(s) = 1 THEN s[1]
    ELSE LET m == SeqMin(Tail(s)) IN IF s[1] < m THEN s[1] ELSE m

RECURSIVE SeqMax(_)
SeqMax(s) ==
    IF Len(s) = 1 THEN s[1]
    ELSE LET m == SeqMax(Tail(s)) IN IF s[1] > m THEN s[1] ELSE m

RECURSIVE Flatten(_)
Flatten(ss) == IF ss = <<>> THEN <<>> ELSE Head(ss) \o Flatten(Tail(ss))

(***************************************************************************)
(* pandas: DataFrame operations the notebook uses.                         *)
(***************************************************************************)
isna(cell) == cell = <<>>

\* DataFrame.drop(labels, axis=1): KeyError when a label is not a column
\* faulty variant: drop(labels, axis=1, errors='ignore')
drop_ok_ignore(df, labels) == Range(labels) \subseteq Range(df.columns) \cup Range(labels)

drop_ok(df, labels) == Range(labels) \subseteq Range(df.columns)

drop(df, labels) ==
    LET keep == SelectSeq(df.columns, LAMBDA c : c \notin Range(labels))
    IN  [columns |-> keep,
         nrows   |-> df.nrows,
         dtypes  |-> [c \in Range(keep) |-> df.dtypes[c]],
         data    |-> [c \in Range(keep) |-> df.data[c]]]

\* df[cols]: KeyError when a name of cols is not a column
getitem_ok(df, cols) == Range(cols) \subseteq Range(df.columns)

getitem(df, cols) ==
    [columns |-> cols,
     nrows   |-> df.nrows,
     dtypes  |-> [c \in Range(cols) |-> df.dtypes[c]],
     data    |-> [c \in Range(cols) |-> df.data[c]]]

\* DataFrame.fillna(value=v)
fillna(df, v) ==
    [df EXCEPT !.data = [c \in DOMAIN df.data |->
        [i \in DOMAIN df.data[c] |->
            IF isna(df.data[c][i]) THEN <<v>> ELSE df.data[c][i]]]]

\* X.isna().sum() / len(X): per column, the ratio of missing cells
isna_ratio(df) ==
    [c \in Range(df.columns) |->
        Rat(Cardinality({i \in 1..df.nrows : isna(df.data[c][i])}), df.nrows)]

\* faulty variant: the counts of all the values tied for most frequent, added up
value_counts_tied(col) ==
    LET vals == {col[i][1] : i \in {j \in DOMAIN col : ~isna(col[j])}}
        cnt(v) == Cardinality({i \in DOMAIN col : col[i] = <<v>>})
        top == CHOOSE n \in {cnt(v) : v \in vals} : \A v \in vals : cnt(v) <= n
    IN  top * Cardinality({v \in vals : cnt(v) = top})

\* Series.value_counts()[0]: the count of the most frequent value
\* (value_counts skips NaN and sorts the counts in descending order)
value_counts_first(col) ==
    LET vals == {col[i][1] : i \in {j \in DOMAIN col : ~isna(col[j])}}
        cnt(v) == Cardinality({i \in DOMAIN col : col[i] = <<v>>})
    IN  CHOOSE n \in {cnt(v) : v \in vals} : \A v \in vals : cnt(v) <= n

(***************************************************************************)
(* scikit-learn: the three transformers and the estimator, as the notebook *)
(* constructs and calls them.                                              *)
(***************************************************************************)
\* check_array: an estimator refuses input with no column or no row
check_array_ok(df) == Len(df.columns) >= 1 /\ df.nrows >= 1

\* SimpleImputer(strategy='constant', fill_value=0).fit(X)
SimpleImputer_fit(df) ==
    [strategy    |-> "constant",
     statistics_ |-> [i \in 1..Len(df.columns) |-> fill_value]]

\* imputer.transform(X): a column count other than the fitted one is refused
SimpleImputer_transform_ok(imp, df) ==
    Len(df.columns) = Len(imp.statistics_)

SimpleImputer_transform(imp, df) ==
    [nrows |-> df.nrows,
     cols  |-> [i \in 1..Len(df.columns) |->
                  [r \in 1..df.nrows |->
                      LET cell == df.data[df.columns[i]][r]
                      IN  IF isna(cell) THEN imp.statistics_[i] ELSE cell[1]]]]

\* faulty variant: the range is used as it is
handle_zeros_in_scale_none(range) == range

\* _handle_zeros_in_scale: a zero range is replaced by 1
handle_zeros_in_scale(range) == IF range = 0 THEN 1 ELSE range

\* MinMaxScaler().fit(X), in exact arithmetic
MinMaxScaler_fit(X) ==
    LET k     == Len(X.cols)
        dmin  == [i \in 1..k |-> SeqMin(X.cols[i])]
        dmax  == [i \in 1..k |-> SeqMax(X.cols[i])]
        scale == [i \in 1..k |->
                    Rat(feature_range[2] - feature_range[1],
                        handle_zeros_in_scale(dmax[i] - dmin[i]))]
    IN  [data_min_ |-> dmin,
         data_max_ |-> dmax,
         scale_    |-> scale,
         min_      |-> [i \in 1..k |->
                          RatAdd(RatOf(feature_range[1]),
                                 RatMul(RatOf(-dmin[i]), scale[i]))]]

MinMaxScaler_transform_ok(sc, X) == Len(X.cols) = Len(sc.scale_)

\* faulty variant: MinMaxScaler(clip=True), results cut to the feature range
MinMaxScaler_transform_clip(sc, X) ==
    [nrows |-> X.nrows,
     cols  |-> [i \in 1..Len(X.cols) |->
                  [r \in 1..X.nrows |->
                      LET q == RatAdd(RatMul(RatOf(X.cols[i][r]), sc.scale_[i]),
                                      sc.min_[i])
                      IN  IF RatGt(q, RatOf(feature_range[2]))
                          THEN RatOf(feature_range[2])
                          ELSE IF RatGt(RatOf(feature_range[1]), q)
                          THEN RatOf(feature_range[1])
                          ELSE q]]]

\* scaler.transform(X): X * scale_ + min_
MinMaxScaler_transform(sc, X) ==
    [nrows |-> X.nrows,
     cols  |-> [i \in 1..Len(X.cols) |->
                  [r \in 1..X.nrows |->
                      RatAdd(RatMul(RatOf(X.cols[i][r]), sc.scale_[i]),
                             sc.min_[i])]]]

\* the category strings of the model, in the order np.unique sorts them
str_order == <<"a", "b", "c", "missing">>

\* np.unique of a column: its distinct values, sorted
unique(col) ==
    SelectSeq(str_order, LAMBDA s : s \in {col[i][1] : i \in DOMAIN col})

\* faulty variant: OneHotEncoder().fit(X): handle_unknown left at its default
OneHotEncoder_fit_default(df) ==
    [handle_unknown |-> "error",
     categories_    |-> [i \in 1..Len(df.columns) |->
                            unique(df.data[df.columns[i]])]]

\* faulty variant: OneHotEncoder(drop='first', handle_unknown='ignore').fit(X): the
\* first category of every column gets no indicator
OneHotEncoder_fit_drop_first(df) ==
    [handle_unknown |-> "ignore",
     categories_    |-> [i \in 1..Len(df.columns) |->
                            Tail(unique(df.data[df.columns[i]]))]]

\* OneHotEncoder(handle_unknown='ignore').fit(X)
OneHotEncoder_fit(df) ==
    [handle_unknown |-> "ignore",
     categories_    |-> [i \in 1..Len(df.columns) |->
                            unique(df.data[df.columns[i]])]]

\* ohe.transform(X) raises on a column count other than the fitted one and,
\* unless handle_unknown is 'ignore', on a value outside categories_
OneHotEncoder_transform_ok(enc, df) ==
    /\ Len(df.columns) = Len(enc.categories_)
    /\ \/ enc.handle_unknown = "ignore"
       \/ \A i \in 1..Len(df.columns) : \A r \in 1..df.nrows :
              df.data[df.columns[i]][r][1] \in Range(enc.categories_[i])

\* faulty variant: an unknown value is encoded as the column's first category
OneHotEncoder_transform_no_mask(enc, df) ==
    [nrows |-> df.nrows,
     cols  |-> Flatten([i \in 1..Len(df.columns) |->
                  [j \in 1..Len(enc.categories_[i]) |->
                      [r \in 1..df.nrows |->
                          LET v == df.data[df.columns[i]][r][1]
                          IN  IF v = enc.categories_[i][j]
                                 \/ (j = 1 /\ v \notin Range(enc.categories_[i]))
                              THEN 1 ELSE 0]]])]

\* ohe.transform(X).todense(): per input column one indicator column per
\* category of categories_, 1 where the row's value is that category
OneHotEncoder_transform(enc, df) ==
    [nrows |-> df.nrows,
     cols  |-> Flatten([i \in 1..Len(df.columns) |->
                  [j \in 1..Len(enc.categories_[i]) |->
                      [r \in 1..df.nrows |->
                          IF df.data[df.columns[i]][r][1] = enc.categories_[i][j]
                          THEN 1 ELSE 0]]])]

\* ohe.get_feature_names(input_features): 'col_cat' per column and category
get_feature_names(enc, input_features) ==
    Flatten([i \in 1..Len(enc.categories_) |->
        [j \in 1..Len(enc.categories_[i]) |->
            <<input_features[i], enc.categories_[i][j]>>]])

\* pd.DataFrame(array, columns=names): refused unless one name per column
DataFrame_ok(X, names) == Len(names) = Len(X.cols)

DataFrame(X, names) ==
    [columns |-> names,
     nrows   |-> X.nrows,
     cols    |-> X.cols]

\* pd.DataFrame(array): the columns are labelled 0 .. k-1
RangeIndex(k) == [i \in 1..k |-> <<i - 1>>]

\* pd.concat([a, b], axis=1) of two frames over the same RangeIndex of rows
concat(a, b) ==
    [columns |-> a.columns \o b.columns,
     nrows   |-> a.nrows,
     cols    |-> a.cols \o b.cols]

\* LinearRegression().fit(X, y): X and y must have the same number of rows
LinearRegression_fit_ok(X, y) == X.nrows = Len(y) /\ X.nrows >= 1

\* the fitted estimator keeps one weight per feature column; the weights'
\* values (a least-squares solve over the reals) are not modelled
LinearRegression_fit(X, y) == [n_features |-> Len(X.cols)]

\* linreg.predict(X): X @ coef_ needs as many columns as coef_ has weights
predict_ok(model, X) == Len(X.cols) = model.n_features

\* one prediction per row (values not modelled)
predict(model, X) == [nrows |-> X.nrows]

\* a call without keyword arguments
NoArguments == [k \in {} |-> 0]

\* Lasso(**kwargs) / Ridge(**kwargs): the penalty strength alpha is the
\* keyword argument when one is given and the library's default otherwise;
\* the estimator is unfitted until fit is called
Penalized(penalty, kwargs) ==
    [penalty |-> penalty,
     alpha   |-> IF "alpha" \in DOMAIN kwargs THEN <<kwargs.alpha>> ELSE <<"default">>,
     fitted  |-> FALSE]

(***************************************************************************)
(* The tables train_test_split hands to the notebook.  Both have the       *)
(* columns c1, n1, c2, n2 (c1, c2 of dtype object; n1, n2 numeric).        *)
(* A reference column is MaxNull or fewer missing cells followed by its    *)
(* values; a held-out table is TestRows rows, each one of HeldRows.        *)
(***************************************************************************)
Columns == <<"c1", "n1", "c2", "n2">>
Dtypes == [c1 |-> "object", n1 |-> "float64", c2 |-> "object", n2 |-> "int64"]
NumVals == {-1, 0, 2}

\* k missing cells, then v1 once, then v2
RefNumCol(k, v1, v2) ==
    [i \in 1..NRows |-> IF i <= k THEN <<>> ELSE IF i = k + 1 THEN <<v1>> ELSE <<v2>>]

\* k missing cells, then m times "b", then "a"
RefCatCol(k, m) ==
    [i \in 1..NRows |-> IF i <= k THEN <<>> ELSE IF i <= k + m THEN <<"b">> ELSE <<"a">>]

\* a categorical column that neither selection removes
CatSurvives(T, c) ==
    /\ T.dtypes[c] = "object"
    /\ ~RatGt(isna_ratio(T)[c], null_thresh)
    /\ ~RatGt(Rat(value_counts_first(fillna(T, missing_token).data[c]), T.nrows),
              dom_thresh)

\* the tables in which a categorical column is left for the encoder
RefTables ==
    { T \in
        { [columns |-> Columns, nrows |-> NRows, dtypes |-> Dtypes,
           data |-> [c1 |-> RefCatCol(kc, mc),
                     n1 |-> RefNumCol(kn, v1, v2),
                     c2 |-> RefCatCol(0, m2),
                     n2 |-> RefNumCol(0, w, 5)]] :
            kc \in 0..MaxNull, mc \in 0..1, kn \in 0..MaxNull,
            v1 \in NumVals, v2 \in NumVals, m2 \in {0, 1, NRows \div 2},
            w \in {1, 5} } :
        \E c \in Range(T.columns) : CatSurvives(T, c) }

HeldRows ==
    { [c1 |-> <<"a">>, n1 |-> <<2>>,  c2 |-> <<"b">>, n2 |-> <<5>>],
      [c1 |-> <<"c">>, n1 |-> <<3>>,  c2 |-> <<"c">>, n2 |-> <<0>>],
      [c1 |-> <<>>,    n1 |-> <<>>,   c2 |-> <<>>,    n2 |-> <<>>] }

HeldTables ==
    { [columns |-> Columns, nrows |-> TestRows, dtypes |-> Dtypes,
       data |-> [c \in Range(Columns) |-> [i \in 1..TestRows |-> rows[i][c]]]] :
        rows \in [1..TestRows -> HeldRows] }

(***************************************************************************)
(* The kernel namespace.                                                   *)
(***************************************************************************)
Bound(name) == name \in DOMAIN env

\* the statement labelled `stmt` has run to completion
Ran(stmt) == stmt \in Range(trace)

\* the statement at `here` ran: its assignments are bound, control moves on
Assign(here, next, bindings) ==
    /\ pc = here
    /\ pc' = next
    /\ env' = bindings @@ env
    /\ trace' = Append(trace, here)
    /\ UNCHANGED <<err, ref0, held0>>

\* the statement at `here` raised: the run stops, nothing is bound
Raise(here, exception) ==
    /\ pc = here
    /\ pc' = "raised"
    /\ err' = <<here, exception>>
    /\ UNCHANGED <<env, trace, ref0, held0>>

\* a later statement of the cell at `here` raised: the earlier ones are bound
RaiseAfter(here, exception, bindings) ==
    /\ pc = here
    /\ pc' = "raised"
    /\ err' = <<here, exception>>
    /\ env' = bindings @@ env
    /\ UNCHANGED <<trace, ref0, held0>>

\* X_train, X_test, y_train, y_test = train_test_split(X, y, random_state=42)
Init ==
    /\ pc = "null_perc"
    /\ err = <<>>
    /\ trace = <<>>
    /\ ref0 \in RefTables
    /\ held0 \in HeldTables
    /\ env = [X_train |-> ref0, X_test |-> held0,
              y_train |-> [i \in 1..NRows |-> i],
              y_test  |-> [i \in 1..TestRows |-> i]]

(***************************************************************************)
(* The statements of the notebook, in order.                               *)
(***************************************************************************)
\* faulty variant: the null ratios are taken after the missing values are replaced
Stmt_null_perc_filled ==
    /\ pc = "null_perc"
    /\ Assign("null_perc", "null_cols_to_drop",
              [null_perc |-> isna_ratio(fillna(env.X_train, missing_token))])

\* null_perc = X_train.isna().sum()/len(X_train)
Stmt_null_perc ==
    /\ pc = "null_perc"
    /\ Assign("null_perc", "null_cols_to_drop",
              [null_perc |-> isna_ratio(env.X_train)])

\* faulty variant: only the first selected column is listed
Stmt_null_cols_to_drop_first ==
    /\ pc = "null_cols_to_drop"
    /\ LET sel == SelectSeq(env.X_train.columns,
                            LAMBDA c : RatGt(env.null_perc[c], null_thresh))
       IN  Assign("null_cols_to_drop", "drop_train",
                  [null_cols_to_drop |-> IF sel = <<>> THEN sel ELSE <<sel[1]>>])

\* null_cols_to_drop = list(null_perc.loc[null_perc > .1].index)
Stmt_null_cols_to_drop ==
    /\ pc = "null_cols_to_drop"
    /\ Assign("null_cols_to_drop", "drop_train",
              [null_cols_to_drop |->
                  SelectSeq(env.X_train.columns,
                            LAMBDA c : RatGt(env.null_perc[c], null_thresh))])

\* faulty variant: the cell stops after its first line: X_test keeps every column
Stmt_drop_train_only ==
    /\ pc = "drop_train"
    /\ Assign("drop_train", "num_cols",
              [X_train |-> drop(env.X_train, env.null_cols_to_drop)])

\* faulty variant: X_train.drop(null_cols_to_drop, axis=1), its result discarded
Stmt_drop_train_discarded ==
    /\ pc = "drop_train"
    /\ Assign("drop_train", "drop_test", [X_train |-> env.X_train])

\* X_train = X_train.drop(null_cols_to_drop, axis=1)
Stmt_drop_train ==
    /\ pc = "drop_train"
    /\ IF drop_ok(env.X_train, env.null_cols_to_drop)
       THEN Assign("drop_train", "drop_test",
                   [X_train |-> drop(env.X_train, env.null_cols_to_drop)])
       ELSE Raise("drop_train", "KeyError")

\* faulty variant: the held-out table drops the columns its own null ratios select
Stmt_drop_test_own ==
    /\ pc = "drop_test"
    /\ Assign("drop_test", "num_cols",
              [X_test |-> drop(env.X_test,
                  SelectSeq(env.X_test.columns,
                      LAMBDA c : RatGt(isna_ratio(env.X_test)[c], null_thresh)))])

\* X_test = X_test.drop(null_cols_to_drop, axis=1)
Stmt_drop_test ==
    /\ pc = "drop_test"
    /\ IF drop_ok(env.X_test, env.null_cols_to_drop)
       THEN Assign("drop_test", "num_cols",
                   [X_test |-> drop(env.X_test, env.null_cols_to_drop)])
       ELSE Raise("drop_test", "KeyError")

\* faulty variant: num_cols is every column that is not of object dtype
Stmt_num_cols_not_object ==
    /\ pc = "num_cols"
    /\ Assign("num_cols", "cont",
              [num_cols |-> SelectSeq(env.X_train.columns,
                                      LAMBDA c : env.X_train.dtypes[c] # "object")])

\* num_cols = [c for c in X_train.columns if X_train[c].dtype in num_types]
Stmt_num_cols ==
    /\ pc = "num_cols"
    /\ Assign("num_cols", "cont",
              [num_cols |-> SelectSeq(env.X_train.columns,
                                      LAMBDA c : env.X_train.dtypes[c] \in num_types)])

\* faulty variant: X_test_cont = X_test[[c for c in num_cols if c in X_test]]
Stmt_cont_present ==
    /\ pc = "cont"
    /\ Assign("cont", "imputer_fit",
              [X_train_cont |-> getitem(env.X_train, env.num_cols),
               X_test_cont  |->
                   getitem(env.X_test,
                           SelectSeq(env.num_cols,
                                     LAMBDA c : c \in Range(env.X_test.columns)))])

\* X_train_cont = X_train[num_cols]; X_test_cont = X_test[num_cols]
Stmt_cont ==
    /\ pc = "cont"
    /\ IF ~getitem_ok(env.X_train, env.num_cols)
       THEN Raise("cont", "KeyError")
       ELSE IF ~getitem_ok(env.X_test, env.num_cols)
       THEN RaiseAfter("cont", "KeyError",
                       [X_train_cont |-> getitem(env.X_train, env.num_cols)])
       ELSE Assign("cont", "imputer_fit",
                   [X_train_cont |-> getitem(env.X_train, env.num_cols),
                    X_test_cont  |-> getitem(env.X_test, env.num_cols)])

\* imputer = SimpleImputer(strategy='constant', fill_value=0)
\* X_train_imputed = imputer.fit_transform(X_train_cont)
Stmt_imputer_fit ==
    /\ pc = "imputer_fit"
    /\ IF check_array_ok(env.X_train_cont)
       THEN LET fitted == SimpleImputer_fit(env.X_train_cont)
            IN  Assign("imputer_fit", "imputer_transform",
                       [imputer |-> fitted,
                        X_train_imputed |->
                            SimpleImputer_transform(fitted, env.X_train_cont)])
       ELSE Raise("imputer_fit", "ValueError")

\* X_test_imputed = imputer.transform(X_test_cont)
Stmt_imputer_transform ==
    /\ pc = "imputer_transform"
    /\ IF check_array_ok(env.X_test_cont)
          /\ SimpleImputer_transform_ok(env.imputer, env.X_test_cont)
       THEN Assign("imputer_transform", "scaler_fit",
                   [X_test_imputed |->
                       SimpleImputer_transform(env.imputer, env.X_test_cont)])
       ELSE Raise("imputer_transform", "ValueError")

\* scaler = MinMaxScaler(); X_train_imsc = scaler.fit_transform(X_train_imputed)
Stmt_scaler_fit ==
    /\ pc = "scaler_fit"
    /\ LET fitted == MinMaxScaler_fit(env.X_train_imputed)
       IN  Assign("scaler_fit", "scaler_transform",
                  [scaler |-> fitted,
                   X_train_imsc |-> MinMaxScaler_transform(fitted, env.X_train_imputed)])

\* faulty variant: X_test_imsc = scaler.fit_transform(X_test_imputed): the scaler is
\* fitted again on the held-out table
Stmt_scaler_transform_refit ==
    /\ pc = "scaler_transform"
    /\ LET refit == MinMaxScaler_fit(env.X_test_imputed)
       IN  Assign("scaler_transform", "cat_cols",
                  [scaler |-> refit,
                   X_test_imsc |-> MinMaxScaler_transform(refit, env.X_test_imputed)])

\* X_test_imsc = scaler.transform(X_test_imputed)
Stmt_scaler_transform ==
    /\ pc = "scaler_transform"
    /\ IF MinMaxScaler_transform_ok(env.scaler, env.X_test_imputed)
       THEN Assign("scaler_transform", "cat_cols",
                   [X_test_imsc |->
                       MinMaxScaler_transform(env.scaler, env.X_test_imputed)])
       ELSE Raise("scaler_transform", "ValueError")

\* cat_cols = [c for c in X_train.columns if X_train[c].dtype in ['object']]
\* X_train_cat = X_train[cat_cols]; X_test_cat = X_test[cat_cols]
Stmt_cat_cols ==
    /\ pc = "cat_cols"
    /\ LET cols == SelectSeq(env.X_train.columns,
                             LAMBDA c : env.X_train.dtypes[c] \in {"object"})
       IN  IF ~getitem_ok(env.X_test, cols)
           THEN RaiseAfter("cat_cols", "KeyError",
                           [cat_cols |-> cols,
                            X_train_cat |-> getitem(env.X_train, cols)])
           ELSE Assign("cat_cols", "fillna",
                       [cat_cols |-> cols,
                        X_train_cat |-> getitem(env.X_train, cols),
                        X_test_cat  |-> getitem(env.X_test, cols)])

\* faulty variant: only the reference table is filled
Stmt_fillna_train_only ==
    /\ pc = "fillna"
    /\ Assign("fillna", "col_to_drop",
              [X_train_cat |-> fillna(env.X_train_cat, missing_token)])

\* X_train_cat = X_train_cat.fillna(value='missing')
\* X_test_cat = X_test_cat.fillna(value='missing')
Stmt_fillna ==
    /\ pc = "fillna"
    /\ Assign("fillna", "col_to_drop",
              [X_train_cat |-> fillna(env.X_train_cat, missing_token),
               X_test_cat  |-> fillna(env.X_test_cat, missing_token)])

\* col_to_drop = []
\* for col in X_train_cat.columns:
\*     col_series = X_train_cat[col].value_counts()
\*     if col_series[0]/len(X_train_cat) > .9: col_to_drop.append(col)
Stmt_col_to_drop ==
    /\ pc = "col_to_drop"
    /\ Assign("col_to_drop", "drop_cat_train",
              [col_to_drop |->
                  SelectSeq(env.X_train_cat.columns,
                      LAMBDA c : RatGt(Rat(value_counts_first(env.X_train_cat.data[c]),
                                           env.X_train_cat.nrows),
                                       dom_thresh))])

\* X_train_cat = X_train_cat.drop(col_to_drop, axis=1)
Stmt_drop_cat_train ==
    /\ pc = "drop_cat_train"
    /\ IF drop_ok(env.X_train_cat, env.col_to_drop)
       THEN Assign("drop_cat_train", "drop_cat_test",
                   [X_train_cat |-> drop(env.X_train_cat, env.col_to_drop)])
       ELSE Raise("drop_cat_train", "KeyError")

\* X_test_cat = X_test_cat.drop(col_to_drop, axis=1)
Stmt_drop_cat_test ==
    /\ pc = "drop_cat_test"
    /\ IF drop_ok(env.X_test_cat, env.col_to_drop)
       THEN Assign("drop_cat_test", "ohe_fit",
                   [X_test_cat |-> drop(env.X_test_cat, env.col_to_drop)])
       ELSE Raise("drop_cat_test", "KeyError")

\* faulty variant: the encoder is fitted on the reference and held-out rows together
Stmt_ohe_fit_leak ==
    /\ pc = "ohe_fit"
    /\ LET both   == [env.X_train_cat EXCEPT
                        !.nrows = env.X_train_cat.nrows + env.X_test_cat.nrows,
                        !.data = [c \in DOMAIN env.X_train_cat.data |->
                                    env.X_train_cat.data[c] \o env.X_test_cat.data[c]]]
           fitted == OneHotEncoder_fit(both)
       IN  Assign("ohe_fit", "ohe_transform",
                  [ohe |-> fitted,
                   X_train_ohe |-> OneHotEncoder_transform(fitted, env.X_train_cat)])

\* ohe = OneHotEncoder(handle_unknown='ignore')
\* X_train_ohe = ohe.fit_transform(X_train_cat)
Stmt_ohe_fit ==
    /\ pc = "ohe_fit"
    /\ LET fitted == OneHotEncoder_fit(env.X_train_cat)
       IN  Assign("ohe_fit", "ohe_transform",
                  [ohe |-> fitted,
                   X_train_ohe |-> OneHotEncoder_transform(fitted, env.X_train_cat)])

\* X_test_ohe = ohe.transform(X_test_cat)
Stmt_ohe_transform ==
    /\ pc = "ohe_transform"
    /\ IF OneHotEncoder_transform_ok(env.ohe, env.X_test_cat)
       THEN Assign("ohe_transform", "ohe_frames",
                   [X_test_ohe |-> OneHotEncoder_transform(env.ohe, env.X_test_cat)])
       ELSE Raise("ohe_transform", "ValueError")

\* faulty variant: cat_test_df = pd.get_dummies(X_test_cat): the held-out indicator
\* columns are those of the held-out table's own values
Stmt_ohe_frames_dummies ==
    /\ pc = "ohe_frames"
    /\ LET names == get_feature_names(env.ohe, env.X_train_cat.columns)
           own   == OneHotEncoder_fit(env.X_test_cat)
       IN  Assign("ohe_frames", "concat",
                  [ohe_col_names |-> names,
                   cat_train_df |-> DataFrame(env.X_train_ohe, names),
                   cat_test_df  |->
                       DataFrame(OneHotEncoder_transform(own, env.X_test_cat),
                                 get_feature_names(own, env.X_test_cat.columns))])

\* ohe_col_names = ohe.get_feature_names(input_features=X_train_cat.columns)
\* cat_train_df = pd.DataFrame(X_train_ohe.todense(), columns=ohe_col_names)
\* cat_test_df = pd.DataFrame(X_test_ohe.todense(), columns=ohe_col_names)
Stmt_ohe_frames ==
    /\ pc = "ohe_frames"
    /\ LET names == get_feature_names(env.ohe, env.X_train_cat.columns)
       IN  IF ~DataFrame_ok(env.X_train_ohe, names)
           THEN RaiseAfter("ohe_frames", "ValueError", [ohe_col_names |-> names])
           ELSE IF ~DataFrame_ok(env.X_test_ohe, names)
           THEN RaiseAfter("ohe_frames", "ValueError",
                           [ohe_col_names |-> names,
                            cat_train_df |-> DataFrame(env.X_train_ohe, names)])
           ELSE Assign("ohe_frames", "concat",
                       [ohe_col_names |-> names,
                        cat_train_df |-> DataFrame(env.X_train_ohe, names),
                        cat_test_df  |-> DataFrame(env.X_test_ohe, names)])

\* faulty variant: the indicator rows are joined in the order of another
\* index, here the reverse of the numeric rows
Stmt_concat_misaligned ==
    /\ pc = "concat"
    /\ LET rev(df) == [df EXCEPT !.cols =
                          [k \in DOMAIN df.cols |->
                              [r \in 1..df.nrows |-> df.cols[k][df.nrows + 1 - r]]]]
       IN  Assign("concat", "linreg_fit",
              [X_train_all |->
                  concat(DataFrame(env.X_train_imsc,
                                   RangeIndex(Len(env.X_train_imsc.cols))),
                         rev(env.cat_train_df)),
               X_test_all |->
                  concat(DataFrame(env.X_test_imsc,
                                   RangeIndex(Len(env.X_test_imsc.cols))),
                         rev(env.cat_test_df))])

\* X_train_all = pd.concat([pd.DataFrame(X_train_imsc), cat_train_df], axis=1)
\* X_test_all = pd.concat([pd.DataFrame(X_test_imsc), cat_test_df], axis=1)
Stmt_concat ==
    /\ pc = "concat"
    /\ Assign("concat", "linreg_fit",
              [X_train_all |->
                  concat(DataFrame(env.X_train_imsc,
                                   RangeIndex(Len(env.X_train_imsc.cols))),
                         env.cat_train_df),
               X_test_all |->
                  concat(DataFrame(env.X_test_imsc,
                                   RangeIndex(Len(env.X_test_imsc.cols))),
                         env.cat_test_df)])

\* linreg = LinearRegression(); linreg.fit(X_train_all, y_train)
Stmt_linreg_fit ==
    /\ pc = "linreg_fit"
    /\ IF LinearRegression_fit_ok(env.X_train_all, env.y_train)
       THEN Assign("linreg_fit", "predict",
                   [linreg |-> LinearRegression_fit(env.X_train_all, env.y_train)])
       ELSE Raise("linreg_fit", "ValueError")

\* train_preds = linreg.predict(X_train_all)
\* test_preds = linreg.predict(X_test_all)
Stmt_predict ==
    /\ pc = "predict"
    /\ IF ~predict_ok(env.linreg, env.X_train_all)
       THEN Raise("predict", "ValueError")
       ELSE IF ~predict_ok(env.linreg, env.X_test_all)
       THEN RaiseAfter("predict", "ValueError",
                       [train_preds |-> predict(env.linreg, env.X_train_all)])
       ELSE Assign("predict", "lasso",
                   [train_preds |-> predict(env.linreg, env.X_train_all),
                    test_preds  |-> predict(env.linreg, env.X_test_all)])

\* lasso = Lasso(): the cell constructs the estimator and stops there
\* (Fit, Predict and Evaluate are comments)
Stmt_lasso ==
    /\ pc = "lasso"
    /\ Assign("lasso", "ridge", [lasso |-> Penalized("l1", NoArguments)])

\* ridge = Ridge(); the line `ridge.fit` names the method without calling it
Stmt_ridge ==
    /\ pc = "ridge"
    /\ Assign("ridge", "done", [ridge |-> Penalized("l2", NoArguments)])

Next ==
    \/ Stmt_null_perc
    \/ Stmt_null_cols_to_drop
    \/ Stmt_drop_train
    \/ Stmt_drop_test
    \/ Stmt_num_cols
    \/ Stmt_cont
    \/ Stmt_imputer_fit
    \/ Stmt_imputer_transform
    \/ Stmt_scaler_fit
    \/ Stmt_scaler_transform
    \/ Stmt_cat_cols
    \/ Stmt_fillna
    \/ Stmt_col_to_drop
    \/ Stmt_drop_cat_train
    \/ Stmt_drop_cat_test
    \/ Stmt_ohe_fit
    \/ Stmt_ohe_transform
    \/ Stmt_ohe_frames
    \/ Stmt_concat
    \/ Stmt_linreg_fit
    \/ Stmt_predict
    \/ Stmt_lasso
    \/ Stmt_ridge

Spec == Init /\ [][Next]_vars

(***************************************************************************)
(* The same statements over tables handed in as arguments: the columns of  *)
(* the reference table come in any order, and the held-out table has the   *)
(* reference table's columns, lacks one of them, or has one more.          *)
(***************************************************************************)
Perms ==
    {p \in [1..Len(Columns) -> 1..Len(Columns)] :
        \A i, j \in 1..Len(Columns) : p[i] = p[j] => i = j}

\* T with its columns in the order p
Reorder(T, p) == [T EXCEPT !.columns = [i \in 1..Len(Columns) |-> Columns[p[i]]]]

\* the reference tables of RefTables with one numeric column of a single value
ArgBaseTables ==
    {R \in RefTables :
        /\ R.data.n1[NRows] = <<2>>
        /\ <<-1>> \in Range(R.data.n1)
        /\ R.data.n2[1] = <<5>>}

\* T with no value at all in column c
AllMissing(T, c) == [T EXCEPT !.data[c] = [i \in 1..NRows |-> <<>>]]

\* T with column c read as True/False (True == 1, False == 0), dtype bool
AsBool(T, c) ==
    [T EXCEPT !.dtypes[c] = "bool", !.data[c] = [i \in 1..NRows |-> <<i % 2>>]]

ArgRefTables ==
    { Reorder(T, p) :
        T \in ArgBaseTables
               \cup {AllMissing(R, "c1") : R \in {B \in ArgBaseTables : CatSurvives(B, "c2")}}
               \cup {AsBool(R, "n2") :
                        R \in {B \in ArgBaseTables :
                                  ~RatGt(isna_ratio(B)["n1"], null_thresh)}},
        p \in Perms }

\* a held-out row for the columns cols; x1 is a column no reference table has
ArgHeldRow ==
    [c1 |-> <<"a">>, n1 |-> <<2>>, c2 |-> <<"b">>, n2 |-> <<5>>, x1 |-> <<7>>]

ArgHeldTable(cols) ==
    [columns |-> cols, nrows |-> TestRows,
     dtypes  |-> [c \in Range(cols) |-> IF c = "x1" THEN "float64" ELSE Dtypes[c]],
     data    |-> [c \in Range(cols) |-> [i \in 1..TestRows |-> ArgHeldRow[c]]]]

\* the column lists a held-out table may have next to the reference list cols
ArgHeldColumns(cols) ==
    {cols, Append(cols, "x1")}
        \cup {SelectSeq(cols, LAMBDA c : c # gone) : gone \in Range(cols)}

InitTables ==
    /\ pc = "null_perc"
    /\ err = <<>>
    /\ trace = <<>>
    /\ ref0 \in ArgRefTables
    /\ held0 \in {ArgHeldTable(cols) : cols \in ArgHeldColumns(ref0.columns)}
    /\ env = [X_train |-> ref0, X_test |-> held0,
              y_train |-> [i \in 1..NRows |-> i],
              y_test  |-> [i \in 1..TestRows |-> i]]

SpecTables == InitTables /\ [][Next]_vars

(***************************************************************************)
(* The notebook from the split on.  X is the loaded table without the      *)
(* target column, y the target column; both carry the row labels           *)
(* 0 .. LoadRows-1 that read_csv gives.  A table with row labels has the   *)
(* field index; a Series is a sequence of <<label, value>>.                *)
(***************************************************************************)
\* n_test = ceil(0.25 * n), the default test_size
n_test(n) == (n + 3) \div 4

\* df.iloc[idx]: the rows at the positions idx, in that order
iloc(df, idx) ==
    [columns |-> df.columns,
     nrows   |-> Len(idx),
     dtypes  |-> df.dtypes,
     index   |-> [k \in 1..Len(idx) |-> df.index[idx[k]]],
     data    |-> [c \in Range(df.columns) |->
                    [k \in 1..Len(idx) |-> df.data[c][idx[k]]]]]

\* series.iloc[idx]
iloc_series(ser, idx) == [k \in 1..Len(idx) |-> ser[idx[k]]]

\* ShuffleSplit: the first n_test positions of the permutation are the test
\* rows, the remaining ones the training rows
test_positions(perm) == SubSeq(perm, 1, n_test(Len(perm)))
train_positions(perm) == SubSeq(perm, n_test(Len(perm)) + 1, Len(perm))

LoadedTables ==
    { [columns |-> Columns, nrows |-> LoadRows, dtypes |-> Dtypes,
       index   |-> [i \in 1..LoadRows |-> i - 1],
       data    |-> [c1 |-> [i \in 1..LoadRows |-> <<str_order[(i % 3) + 1]>>],
                    n1 |-> [i \in 1..LoadRows |-> IF i = m THEN <<>> ELSE <<i % 3>>],
                    c2 |-> [i \in 1..LoadRows |-> <<str_order[(i % 2) + 1]>>],
                    n2 |-> [i \in 1..LoadRows |-> <<i>>]]] :
        m \in 0..LoadRows }

\* the permutations of the positions 1 .. n
ShufflesOf(n) == {p \in [1..n -> 1..n] : \A i, j \in 1..n : p[i] = p[j] => i = j}

\* X and y are bound; RandomState(42) stands for the permutation the seeded
\* generator yields for LoadRows rows, fixed by the seed and not known here
InitLoaded ==
    /\ pc = "split"
    /\ err = <<>>
    /\ trace = <<>>
    /\ ref0 = <<>>
    /\ held0 = <<>>
    /\ \E X \in LoadedTables, perm \in ShufflesOf(LoadRows) :
          env = [X |-> X,
                 y |-> [i \in 1..LoadRows |-> <<i - 1, X.data.n2[i][1] + LoadRows>>],
                 RandomState_42 |-> perm]

\* faulty variant: X is split by the shuffle, y by position
Stmt_split_unpaired ==
    /\ pc = "split"
    /\ pc' = "null_perc"
    /\ LET train == train_positions(env.RandomState_42)
           test  == test_positions(env.RandomState_42)
           n     == Len(train)
       IN  /\ env' = [X_train |-> iloc(env.X, train),
                      X_test  |-> iloc(env.X, test),
                      y_train |-> SubSeq(env.y, 1, n),
                      y_test  |-> SubSeq(env.y, n + 1, Len(env.y))] @@ env
           /\ ref0' = iloc(env.X, train)
           /\ held0' = iloc(env.X, test)
    /\ trace' = Append(trace, "split")
    /\ UNCHANGED err

\* X_train, X_test, y_train, y_test = train_test_split(X, y, random_state=42)
Stmt_split ==
    /\ pc = "split"
    /\ pc' = "null_perc"
    /\ LET train == train_positions(env.RandomState_42)
           test  == test_positions(env.RandomState_42)
       IN  /\ env' = [X_train |-> iloc(env.X, train),
                      X_test  |-> iloc(env.X, test),
                      y_train |-> iloc_series(env.y, train),
                      y_test  |-> iloc_series(env.y, test)] @@ env
           /\ ref0' = iloc(env.X, train)
           /\ held0' = iloc(env.X, test)
    /\ trace' = Append(trace, "split")
    /\ UNCHANGED err

NextLoaded == Stmt_split \/ Next

SpecSplit == InitLoaded /\ [][NextLoaded]_vars

(***************************************************************************)
(* What the reference table alone determines.  These definitions read only *)
(* ref0, the reference table as the split returned it.                     *)
(***************************************************************************)
\* a categorical cell with a missing entry read as the token "missing"
Token(cell) == IF cell = <<>> THEN "missing" ELSE cell[1]

\* a numeric cell with a missing entry read as 0
Filled(cell) == IF cell = <<>> THEN 0 ELSE cell[1]

NullCount(T, c) == Cardinality({i \in 1..T.nrows : T.data[c][i] = <<>>})

TokenCount(T, c, v) == Cardinality({i \in 1..T.nrows : Token(T.data[c][i]) = v})

Vocabulary(T, c) == {Token(T.data[c][i]) : i \in 1..T.nrows}

FilledValues(T, c) == {Filled(T.data[c][i]) : i \in 1..T.nrows}

MinOf(S) == CHOOSE m \in S : \A x \in S : m <= x

MaxOf(S) == CHOOSE m \in S : \A x \in S : m >= x

\* the pipeline's learning steps as one function of a reference table
LearnedFrom(ref) ==
    LET nd     == SelectSeq(ref.columns,
                      LAMBDA c : RatGt(isna_ratio(ref)[c], null_thresh))
        kept   == drop(ref, nd)
        numc   == SelectSeq(kept.columns, LAMBDA c : kept.dtypes[c] \in num_types)
        cont   == getitem(kept, numc)
        imp    == SimpleImputer_fit(cont)
        filled == SimpleImputer_transform(imp, cont)
        sc     == MinMaxScaler_fit(filled)
        catc   == SelectSeq(kept.columns, LAMBDA c : kept.dtypes[c] = "object")
        cat    == fillna(getitem(kept, catc), missing_token)
        cd     == SelectSeq(cat.columns,
                      LAMBDA c : RatGt(Rat(value_counts_first(cat.data[c]), cat.nrows),
                                       dom_thresh))
        cat2   == drop(cat, cd)
        enc    == OneHotEncoder_fit(cat2)
        num_df == DataFrame(MinMaxScaler_transform(sc, filled), RangeIndex(Len(numc)))
        cat_df == DataFrame(OneHotEncoder_transform(enc, cat2),
                            get_feature_names(enc, cat2.columns))
    IN  [null_cols_to_drop |-> nd, col_to_drop |-> cd, imputer |-> imp,
         scaler |-> sc, ohe |-> enc, X_train_all |-> concat(num_df, cat_df)]

(***************************************************************************)
(* C1.  Transform never changes the fitted parameters: from the statement  *)
(* that fits a transformer on, no statement (in particular no transform of *)
(* the held-out table) changes the imputer's fill values, the scaler's     *)
(* per-column min and max or the encoder's per-column vocabulary, and they *)
(* are the values of the reference table: the fill value, the minimum and  *)
(* maximum of each filled reference column, the distinct values of each    *)
(* reference column.                                                       *)
(***************************************************************************)
C1_ParamsAreReferenceValues ==
    /\ Bound("imputer") =>
          \A i \in DOMAIN env.imputer.statistics_ : env.imputer.statistics_[i] = 0
    /\ Bound("scaler") =>
          \A i \in DOMAIN env.num_cols :
              /\ env.scaler.data_min_[i] = MinOf(FilledValues(ref0, env.num_cols[i]))
              /\ env.scaler.data_max_[i] = MaxOf(FilledValues(ref0, env.num_cols[i]))
    /\ Bound("ohe") =>
          \A i \in DOMAIN env.X_train_cat.columns :
              Range(env.ohe.categories_[i]) = Vocabulary(ref0, env.X_train_cat.columns[i])

C1_ParamsNeverChange ==
    /\ Bound("imputer") => Bound("imputer")' /\ env'.imputer = env.imputer
    /\ Bound("scaler")  => Bound("scaler")' /\ env'.scaler = env.scaler
    /\ Bound("ohe")     => Bound("ohe")' /\ env'.ohe = env.ohe

C1_TransformKeepsFitParameters ==
    [] C1_ParamsAreReferenceValues /\ [][C1_ParamsNeverChange]_vars

\* all three transforms have run on a held-out table that a fit would have
\* learned other parameters from: a value above the reference maximum and a
\* category outside the reference vocabulary
C1_Witness ==
    /\ pc = "done"
    /\ \E i \in DOMAIN env.num_cols : \E r \in 1..env.X_test_imputed.nrows :
          env.X_test_imputed.cols[i][r] > env.scaler.data_max_[i]
    /\ \E i \in DOMAIN env.X_test_cat.columns : \E r \in 1..env.X_test_cat.nrows :
          env.X_test_cat.data[env.X_test_cat.columns[i]][r][1]
              \notin Range(env.ohe.categories_[i])

(***************************************************************************)
(* C2.  The held-out table is never used to learn parameters: the two      *)
(* drop lists, the imputer, the scaler (min, max, scale), the encoder      *)
(* (vocabulary) and the reference feature table that a run ends with are   *)
(* the values LearnedFrom computes from the reference table alone, so two  *)
(* runs on the same reference table agree on them whatever their held-out  *)
(* tables are.                                                             *)
(***************************************************************************)
C2_LearnedFromReferenceOnly ==
    LET L == LearnedFrom(ref0)
    IN  pc \in {"done", "raised"} =>
        /\ Bound("null_cols_to_drop") => env.null_cols_to_drop = L.null_cols_to_drop
        /\ Bound("col_to_drop") => env.col_to_drop = L.col_to_drop
        /\ Bound("imputer") => env.imputer = L.imputer
        /\ Bound("scaler") => env.scaler = L.scaler
        /\ Bound("ohe") => env.ohe = L.ohe
        /\ Bound("X_train_all") => env.X_train_all = L.X_train_all

\* a finished run whose held-out table, had it been learned from, would
\* have given another drop list, another scaler and another encoder
C2_Witness ==
    /\ pc = "done"
    /\ LearnedFrom(held0).null_cols_to_drop # env.null_cols_to_drop
    /\ \E c \in Range(env.num_cols) :
          MaxOf(FilledValues(held0, c)) > MaxOf(FilledValues(ref0, c))
    /\ \E c \in Range(env.X_train_cat.columns) :
          ~(Vocabulary(held0, c) \subseteq Vocabulary(ref0, c))

(***************************************************************************)
(* C4.  The order of the pipeline's steps.                                 *)
(***************************************************************************)
\* the place of a completed statement in the run
Pos(stmt) == CHOOSE i \in DOMAIN trace : trace[i] = stmt

\* whenever `later` has run, `earlier` ran before it
Before(earlier, later) == Ran(later) => Ran(earlier) /\ Pos(earlier) < Pos(later)

SelectStmts == {"null_cols_to_drop", "drop_train", "drop_test",
                "col_to_drop", "drop_cat_train", "drop_cat_test"}
FitStmts == {"imputer_fit", "scaler_fit", "ohe_fit"}
TransformStmts == {"imputer_transform", "scaler_transform", "ohe_transform"}

\* the claim's stages: 1 profile, 2 select, 3 fit transformers, 4 transform,
\* 5 assemble, 6 fit model, 7 predict; 0 for a statement that is none of them
\* (col_to_drop profiles and selects in one loop and counts as select)
Stage(stmt) ==
    CASE stmt = "null_perc" -> 1
      [] stmt \in SelectStmts -> 2
      [] stmt \in FitStmts -> 3
      [] stmt \in TransformStmts -> 4
      [] stmt \in {"ohe_frames", "concat"} -> 5
      [] stmt = "linreg_fit" -> 6
      [] stmt = "predict" -> 7
      [] OTHER -> 0

(* C4 as claimed: the steps of every run occur in the order profile,       *)
(* select, fit transformers, transform, assemble, fit model, predict; no   *)
(* transform precedes the corresponding fit, no transformer fit precedes   *)
(* the column selection, no predict precedes the model fit.                *)
C4_GlobalStageOrder ==
    /\ \A i, j \in DOMAIN trace :
          (i < j /\ Stage(trace[i]) > 0 /\ Stage(trace[j]) > 0)
              => Stage(trace[i]) <= Stage(trace[j])
    /\ \A f \in FitStmts : \A sel \in SelectStmts : Before(sel, f)
    /\ Before("imputer_fit", "imputer_transform")
    /\ Before("scaler_fit", "scaler_transform")
    /\ Before("ohe_fit", "ohe_transform")
    /\ Before("linreg_fit", "predict")

(* C4 as amended: the null ratios are profiled before the null-ratio       *)
(* selection, which is applied to both tables before any transformer is    *)
(* fitted; the dominance selection is made and applied to both tables      *)
(* before the encoder is fitted (but after the imputer and the scaler have *)
(* been fitted and applied); no transform precedes the corresponding fit;  *)
(* the tables are assembled after every transform, the model is fitted     *)
(* after the assembly and predict follows the model fit.                   *)
C4_PerTransformerOrder ==
    /\ Before("null_perc", "null_cols_to_drop")
    /\ Before("null_cols_to_drop", "drop_train")
    /\ Before("null_cols_to_drop", "drop_test")
    /\ \A f \in FitStmts : Before("drop_train", f) /\ Before("drop_test", f)
    /\ Before("col_to_drop", "drop_cat_train")
    /\ Before("col_to_drop", "drop_cat_test")
    /\ Before("drop_cat_train", "ohe_fit")
    /\ Before("drop_cat_test", "ohe_fit")
    /\ Before("scaler_transform", "col_to_drop")
    /\ Before("imputer_fit", "imputer_transform")
    /\ Before("scaler_fit", "scaler_transform")
    /\ Before("ohe_fit", "ohe_transform")
    /\ \A t \in TransformStmts : Before(t, "concat")
    /\ Before("concat", "linreg_fit")
    /\ Before("linreg_fit", "predict")

\* a finished run in which the numeric transformers were fitted and applied
\* before the dominance selection
C4_Witness ==
    /\ pc = "done"
    /\ Ran("predict")
    /\ Pos("scaler_transform") < Pos("col_to_drop")
    /\ env.col_to_drop # <<>>

(***************************************************************************)
(* C6.  One-hot exclusivity.  In both encoded tables, for every row and    *)
(* every surviving categorical column: if the row's value (missing read as *)
(* "missing") is in the reference vocabulary of the column, exactly one    *)
(* indicator of the column's set is 1, the one of that value, and the      *)
(* others are 0; if it is not, every indicator of the set is 0.            *)
(***************************************************************************)
\* the indicator columns of df that belong to the input column c
IndicatorSet(df, c) == {k \in DOMAIN df.columns : df.columns[k][1] = c}

OneHot(df, raw) ==
    \A c \in Range(env.X_train_cat.columns) : \A r \in 1..raw.nrows :
        LET v    == Token(raw.data[c][r])
            set  == IndicatorSet(df, c)
            ones == {k \in set : df.cols[k][r] = 1}
        IN  /\ \A k \in set : df.cols[k][r] \in {0, 1}
            /\ IF v \in Vocabulary(ref0, c)
               THEN \E k \in set : ones = {k} /\ df.columns[k] = <<c, v>>
               ELSE ones = {}

C6_OneHotExclusive ==
    /\ Bound("cat_train_df") => OneHot(env.cat_train_df, ref0)
    /\ Bound("cat_test_df") => OneHot(env.cat_test_df, held0)

\* the held-out table is encoded; in one surviving column it has a value of
\* the vocabulary, a value outside it, and a missing entry where the
\* reference column has none
C6_Witness ==
    /\ Bound("cat_test_df")
    /\ \E c \in Range(env.X_train_cat.columns) :
          /\ \E r \in 1..held0.nrows : Token(held0.data[c][r]) \in Vocabulary(ref0, c)
          /\ \E r \in 1..held0.nrows :
                /\ held0.data[c][r] # <<>>
                /\ Token(held0.data[c][r]) \notin Vocabulary(ref0, c)
    /\ \E c \in Range(env.X_train_cat.columns) : \E r \in 1..held0.nrows :
          held0.data[c][r] = <<>> /\ "missing" \notin Vocabulary(ref0, c)

(***************************************************************************)
(* C7.  A held-out table with a category value never seen during fit is    *)
(* encoded without an error and without a new indicator column: the        *)
(* encoding statements do not raise, and the indicator columns of the      *)
(* held-out block are those established by fit, one per surviving column   *)
(* and value of its reference vocabulary.                                  *)
(***************************************************************************)
HeldHasUnseen ==
    \E c \in Range(env.X_train_cat.columns) : \E r \in 1..held0.nrows :
        Token(held0.data[c][r]) \notin Vocabulary(ref0, c)

RaisedAt(stmts) == err # <<>> /\ err[1] \in stmts

C7_UnknownCategoryTolerated ==
    (Ran("ohe_fit") /\ HeldHasUnseen) =>
        /\ ~RaisedAt({"ohe_transform", "ohe_frames"})
        /\ Bound("X_test_ohe") =>
              Len(env.X_test_ohe.cols) = Len(env.X_train_ohe.cols)
        /\ Bound("cat_test_df") =>
              /\ env.cat_test_df.columns = env.cat_train_df.columns
              /\ Len(env.cat_test_df.cols) = Len(env.cat_test_df.columns)
              /\ Range(env.cat_test_df.columns) =
                    UNION { {<<c, v>> : v \in Vocabulary(ref0, c)} :
                            c \in Range(env.X_train_cat.columns) }

\* a held-out table with an unseen value has been encoded and framed
C7_Witness ==
    /\ Ran("ohe_frames")
    /\ HeldHasUnseen
    /\ Bound("cat_test_df")

(***************************************************************************)
(* C8.  The assembled reference and held-out feature tables have the same  *)
(* column list, name for name and in the same order, and every finished    *)
(* run has both.                                                           *)
(***************************************************************************)
C8_SameFeatureColumns ==
    /\ pc = "done" => Bound("X_train_all") /\ Bound("X_test_all")
    /\ Bound("X_train_all") =>
          /\ Bound("X_test_all")
          /\ env.X_test_all.columns = env.X_train_all.columns
          /\ Len(env.X_train_all.cols) = Len(env.X_train_all.columns)
          /\ Len(env.X_test_all.cols) = Len(env.X_test_all.columns)

\* both tables are assembled from tables with different rows and different
\* category values, with a numeric and an indicator block
C8_Witness ==
    /\ Bound("X_train_all") /\ Bound("X_test_all")
    /\ env.X_train_all.nrows # env.X_test_all.nrows
    /\ HeldHasUnseen
    /\ env.num_cols # <<>>
    /\ Len(env.X_train_all.columns) > Len(env.num_cols) + 1

(***************************************************************************)
(* C9.  The drop-set computed from the reference table is exactly the      *)
(* columns whose null ratio is strictly above 0.10 together with the       *)
(* categorical columns whose most frequent value (missing counted as its   *)
(* own value) occupies strictly more than 0.90 of the rows; a column at    *)
(* exactly 0.10 or exactly 0.90 is kept.                                   *)
(***************************************************************************)
NullRatioAbove(T, c) == 10 * NullCount(T, c) > T.nrows

DominanceAbove(T, c) ==
    /\ T.dtypes[c] = "object"
    /\ \E v \in Vocabulary(T, c) : 10 * TokenCount(T, c, v) > 9 * T.nrows

DropSetOf(T) ==
    {c \in Range(T.columns) : NullRatioAbove(T, c)}
        \cup {c \in Range(T.columns) : DominanceAbove(T, c)}

DropSet == Range(env.null_cols_to_drop) \cup Range(env.col_to_drop)

C9_DropSetExact ==
    /\ Bound("null_cols_to_drop") =>
          Range(env.null_cols_to_drop) =
              {c \in Range(ref0.columns) : NullRatioAbove(ref0, c)}
    /\ Bound("col_to_drop") => DropSet = DropSetOf(ref0)

\* both rules have dropped a column, and two columns sit exactly on a
\* threshold and are kept: one with null ratio 0.10, one whose most frequent
\* value holds 0.90 of the rows
C9_Witness ==
    /\ Bound("col_to_drop")
    /\ env.null_cols_to_drop # <<>>
    /\ env.col_to_drop # <<>>
    /\ \E c \in Range(ref0.columns) \ DropSet : 10 * NullCount(ref0, c) = ref0.nrows
    /\ \E c \in Range(ref0.columns) \ DropSet :
          \E v \in Vocabulary(ref0, c) : 10 * TokenCount(ref0, c, v) = 9 * ref0.nrows

(***************************************************************************)
(* C10.  The drop-set is applied identically to both tables and the        *)
(* held-out values do not influence it: once the drops have run, the       *)
(* held-out table has lost exactly the columns the reference table has     *)
(* lost, which are the drop-set of the reference table.                    *)
(***************************************************************************)
C10_SameColumnsDropped ==
    /\ Ran("drop_test") =>
          /\ env.X_test.columns = env.X_train.columns
          /\ Range(held0.columns) \ Range(env.X_test.columns)
                = Range(env.null_cols_to_drop)
          /\ Range(env.null_cols_to_drop)
                = {c \in Range(ref0.columns) : NullRatioAbove(ref0, c)}
    /\ Ran("drop_cat_test") =>
          /\ env.X_test_cat.columns = env.X_train_cat.columns
          /\ Range(env.cat_cols) \ Range(env.X_test_cat.columns)
                = Range(env.col_to_drop)
          /\ DropSet = DropSetOf(ref0)

\* the drops have run on a held-out table whose own null ratios and value
\* frequencies select other columns than the reference table's
C10_Witness ==
    /\ Ran("drop_cat_test")
    /\ DropSet # {}
    /\ {c \in Range(held0.columns) : NullRatioAbove(held0, c)}
          # {c \in Range(ref0.columns) : NullRatioAbove(ref0, c)}
    /\ \E c \in Range(env.X_test_cat.columns) : DominanceAbove(held0, c)

(***************************************************************************)
(* C11.  The final drop-set does not depend on the order of the columns    *)
(* nor on the order of the two rules: for the reference table's columns in *)
(* any order, the columns that survive both selections are those that      *)
(* survive for the columns in their original order, and those that survive *)
(* when the dominance rule is applied before the null-ratio rule.          *)
(***************************************************************************)
\* T with its columns in the original order
Canonical(T) == [T EXCEPT !.columns = Columns]

\* the drop-set with the dominance rule applied first, the null-ratio rule
\* second, on the columns the dominance rule has left
DominanceThenNull(T) ==
    LET cat    == SelectSeq(T.columns, LAMBDA c : T.dtypes[c] = "object")
        filled == fillna(getitem(T, cat), missing_token)
        dom    == SelectSeq(cat,
                      LAMBDA c : RatGt(Rat(value_counts_first(filled.data[c]),
                                           T.nrows), dom_thresh))
        rest   == drop(T, dom)
        nul    == SelectSeq(rest.columns,
                      LAMBDA c : RatGt(isna_ratio(rest)[c], null_thresh))
    IN  Range(dom) \cup Range(nul)

Survivors == Range(env.num_cols) \cup Range(env.X_train_cat.columns)

C11_DropSetOrderIndependent ==
    /\ Bound("col_to_drop") =>
          /\ DropSet = DropSetOf(Canonical(ref0))
          /\ DropSet = DominanceThenNull(ref0)
          /\ DropSet = DominanceThenNull(Canonical(ref0))
    /\ Ran("drop_cat_train") =>
          Survivors = {c \in Range(Columns) \ DropSetOf(Canonical(ref0)) :
                          ref0.dtypes[c] \in num_types \cup {"object"}}

\* the selections have run on a table whose columns are not in the original
\* order, with a dominated column listed before a column of too many nulls,
\* and each rule has dropped a column
C11_Witness ==
    /\ Ran("drop_cat_train")
    /\ ref0.columns # Columns
    /\ env.null_cols_to_drop # <<>>
    /\ env.col_to_drop # <<>>
    /\ \E i, j \in DOMAIN ref0.columns :
          /\ i < j
          /\ ref0.columns[i] \in Range(env.col_to_drop)
          /\ ref0.columns[j] \in Range(env.null_cols_to_drop)

(***************************************************************************)
(* C12.  A column of the drop-set that the held-out table does not have    *)
(* makes the drop on the held-out table fail instead of being skipped:     *)
(* X_test.drop raises KeyError and leaves X_test as it was, and a drop     *)
(* that has run on a held-out table found every listed column in it.  A    *)
(* run over such a held-out table never finishes.                          *)
(***************************************************************************)
AbsentFrom(labels, T) == Range(labels) \ Range(T.columns)

C12_AbsentDropColumnFails ==
    /\ (Bound("null_cols_to_drop") /\ AbsentFrom(env.null_cols_to_drop, held0) # {}) =>
          /\ ~Ran("drop_test")
          /\ env.X_test = held0
          /\ pc \in {"drop_train", "drop_test", "raised"}
          /\ pc = "raised" => err = <<"drop_test", "KeyError">>
    /\ Ran("drop_test") =>
          /\ AbsentFrom(env.null_cols_to_drop, held0) = {}
          /\ Range(env.X_test.columns)
                = Range(held0.columns) \ Range(env.null_cols_to_drop)
    /\ Ran("drop_cat_test") =>
          /\ AbsentFrom(env.col_to_drop, held0) = {}
          /\ Range(env.X_test_cat.columns)
                = Range(env.cat_cols) \ Range(env.col_to_drop)
    /\ DropSetOf(ref0) \ Range(held0.columns) # {} =>
          /\ pc # "done"
          /\ ~Bound("X_test_all")
          /\ pc = "raised" => err[2] = "KeyError"

\* the drop on a held-out table that lacks a column of the drop list raised
C12_Witness ==
    /\ pc = "raised"
    /\ err = <<"drop_test", "KeyError">>
    /\ AbsentFrom(env.null_cols_to_drop, held0) # {}
    /\ Ran("drop_train")

(***************************************************************************)
(* C13.  A held-out table whose columns are not the reference table's.     *)
(***************************************************************************)
Lacking == Range(ref0.columns) \ Range(held0.columns)

Named ==
    {c \in Lacking : \/ NullRatioAbove(ref0, c)
                     \/ ref0.dtypes[c] \in num_types \cup {"object"}}

\* the statement at which a run over a held-out table lacking columns stops
FirstUse ==
    IF \E c \in Named : NullRatioAbove(ref0, c) THEN "drop_test"
    ELSE IF \E c \in Named : ref0.dtypes[c] \in num_types THEN "cont"
    ELSE "cat_cols"

IsScaled(q, x, lo, hi) ==
    IF hi = lo THEN q[1] = (x - lo) * q[2]
    ELSE q[1] * (hi - lo) = (x - lo) * q[2]

AssembledFrom(F, T) ==
    LET k == Len(env.num_cols)
    IN  /\ F.nrows = T.nrows
        /\ Len(F.columns) = k + Len(env.ohe_col_names)
        /\ Len(F.cols) = Len(F.columns)
        /\ \A i \in 1..k : F.columns[i] = <<i - 1>>
        /\ \A j \in 1..Len(env.ohe_col_names) :
              F.columns[k + j] = env.ohe_col_names[j]
        /\ \A r \in 1..T.nrows :
              /\ \A i \in 1..k :
                    LET c == env.num_cols[i]
                    IN  IsScaled(F.cols[i][r], Filled(T.data[c][r]),
                                 MinOf(FilledValues(ref0, c)),
                                 MaxOf(FilledValues(ref0, c)))
              /\ \A j \in 1..Len(env.ohe_col_names) :
                    LET name == env.ohe_col_names[j]
                    IN  F.cols[k + j][r] =
                            IF Token(T.data[name[1]][r]) = name[2] THEN 1 ELSE 0

\* the position of a string in the sort order of the category values
SortRank(v) == CHOOSE i \in DOMAIN str_order : str_order[i] = v

\* names lists the surviving categorical columns in table order, and the
\* values of one column in sorted order
FitOrder(names) ==
    \A i, j \in DOMAIN names :
        i < j =>
            \/ /\ names[i][1] = names[j][1]
               /\ SortRank(names[i][2]) < SortRank(names[j][2])
            \/ \E a, b \in DOMAIN env.X_train_cat.columns :
                  /\ a < b
                  /\ env.X_train_cat.columns[a] = names[i][1]
                  /\ env.X_train_cat.columns[b] = names[j][1]

C14_AssemblyOrder ==
    Bound("X_train_all") =>
        /\ FitOrder(env.ohe_col_names)
        /\ Range(env.ohe_col_names) =
              UNION { {<<c, v>> : v \in Vocabulary(ref0, c)} :
                      c \in Range(env.X_train_cat.columns) }
        /\ AssembledFrom(env.X_train_all, ref0)
        /\ AssembledFrom(env.X_test_all, held0)

\* both tables are assembled with two numeric and two categorical columns,
\* from tables whose rows differ in a numeric and in a categorical column
C14_Witness ==
    /\ Bound("X_test_all")
    /\ Len(env.num_cols) = 2
    /\ Len(env.X_train_cat.columns) = 2
    /\ held0.data.c1[1] # held0.data.c1[TestRows]
    /\ held0.data.n1[1] # held0.data.n1[TestRows]
    /\ ref0.data.c1[1] # ref0.data.c1[NRows]
    /\ ref0.data.n1[1] # ref0.data.n1[NRows]

(***************************************************************************)
(* C15.  The numeric transform fills missing values with the fill value    *)
(* and rescales each value as (x - min) / (max - min) with the min and max *)
(* of the filled reference column, without clamping held-out values to     *)
(* [0, 1].  For the reference column [0, 10, 20, missing] and fill value 0 *)
(* the result is [0, 1/2, 1, 0], and a held-out 30 becomes 3/2 (the        *)
(* example is evaluated when the numeric transform of a run has finished). *)
(***************************************************************************)
RescaledFrom(X, T) ==
    \A i \in DOMAIN env.num_cols :
        LET c  == env.num_cols[i]
            lo == MinOf(FilledValues(ref0, c))
            hi == MaxOf(FilledValues(ref0, c))
        IN  hi # lo =>
               \A r \in 1..T.nrows :
                  /\ X.cols[i][r][2] > 0
                  /\ X.cols[i][r][1] * (hi - lo)
                        = (Filled(T.data[c][r]) - lo) * X.cols[i][r][2]

ExampleA ==
    [columns |-> <<"A">>, nrows |-> 4, dtypes |-> [A |-> "float64"],
     data |-> [A |-> << <<0>>, <<10>>, <<20>>, <<>> >>]]

ExampleHeld ==
    [columns |-> <<"A">>, nrows |-> 1, dtypes |-> [A |-> "float64"],
     data |-> [A |-> << <<30>> >>]]

\* fit the imputer and the scaler on ref, then transform T
NumericTransform(ref, T) ==
    LET imp == SimpleImputer_fit(ref)
        sc  == MinMaxScaler_fit(SimpleImputer_transform(imp, ref))
    IN  MinMaxScaler_transform(sc, SimpleImputer_transform(imp, T))

Degenerate(c) == Cardinality(FilledValues(ref0, c)) = 1

Finite(q) == q[2] > 0

C16_DegenerateColumnConstant ==
    /\ ~RaisedAt({"scaler_fit", "scaler_transform"})
    /\ Bound("scaler") =>
          \A i \in DOMAIN env.num_cols :
              /\ Finite(env.scaler.scale_[i]) /\ Finite(env.scaler.min_[i])
              /\ \A r \in 1..NRows : Finite(env.X_train_imsc.cols[i][r])
              /\ Degenerate(env.num_cols[i]) =>
                    /\ env.scaler.scale_[i] = <<1, 1>>
                    /\ \A r \in 1..NRows : env.X_train_imsc.cols[i][r] = <<0, 1>>
    /\ Bound("X_test_imsc") =>
          \A i \in DOMAIN env.num_cols : \A r \in 1..TestRows :
              /\ Finite(env.X_test_imsc.cols[i][r])
              /\ Degenerate(env.num_cols[i]) =>
                    env.X_test_imsc.cols[i][r]
                        = <<Filled(held0.data[env.num_cols[i]][r])
                               - MinOf(FilledValues(ref0, env.num_cols[i])), 1>>

\* the scaler has been fitted and applied with a column that is constant at
\* a non-zero value and a column that is constant at the fill value
C16_Witness ==
    /\ Bound("X_test_imsc")
    /\ \E c \in Range(env.num_cols) : FilledValues(ref0, c) = {5}
    /\ \E c \in Range(env.num_cols) :
          FilledValues(ref0, c) = {0} /\ NullCount(ref0, c) > 0

(***************************************************************************)
(* C17.  Missing categorical entries and the token "missing".              *)
(***************************************************************************)
\* every cell of the filled table X is the token of the same cell of T
TokensOf(X, T) ==
    /\ X.columns = env.cat_cols
    /\ \A c \in Range(env.cat_cols) : \A r \in 1..T.nrows :
          X.data[c][r] = <<Token(T.data[c][r])>>

\* the indicator column of "missing" for the column c, in the table F
MissingIndicator(F, c) == {k \in DOMAIN F.columns : F.columns[k] = <<c, "missing">>}

(* C17 as claimed: missing categorical entries are replaced by "missing"   *)
(* in both tables before the dominance profile and the encoding, and       *)
(* "missing" gets its own indicator column whenever the reference column   *)
(* has at least one missing entry.                                         *)
C17_MissingAlwaysIndicator ==
    /\ Ran("fillna") /\ ~Ran("drop_cat_train") =>
          TokensOf(env.X_train_cat, ref0) /\ TokensOf(env.X_test_cat, held0)
    /\ Bound("cat_train_df") =>
          \A c \in Range(ref0.columns) :
              (ref0.dtypes[c] = "object" /\ NullCount(ref0, c) > 0) =>
                  MissingIndicator(env.cat_train_df, c) # {}

(* C17 as amended: missing categorical entries are replaced by "missing"   *)
(* in both tables before the dominance profile and the encoding; "missing" *)
(* counts as a value of the column in the dominant-value ratio, whose      *)
(* denominator is the number of rows; and a categorical column that        *)
(* survives both selections gets an indicator column for "missing" exactly *)
(* when the reference column has at least one missing entry, which is 1 in *)
(* the rows of either table whose entry is missing.  A categorical column  *)
(* with missing entries that a selection drops gets no indicator column.   *)
C17_MissingIsCategory ==
    /\ Ran("col_to_drop") => Ran("fillna")
    /\ Ran("ohe_fit") => Ran("fillna")
    /\ Ran("fillna") /\ ~Ran("drop_cat_train") =>
          TokensOf(env.X_train_cat, ref0) /\ TokensOf(env.X_test_cat, held0)
    /\ Bound("col_to_drop") =>
          Range(env.col_to_drop) =
              {c \in Range(env.cat_cols) :
                  \E v \in Vocabulary(ref0, c) :
                      10 * TokenCount(ref0, c, v) > 9 * ref0.nrows}
    /\ Bound("cat_test_df") =>
          /\ \A c \in Range(env.X_train_cat.columns) :
                /\ NullCount(ref0, c) > 0 <=> MissingIndicator(env.cat_train_df, c) # {}
                /\ \A k \in MissingIndicator(env.cat_train_df, c) :
                      /\ \A r \in 1..ref0.nrows :
                            env.cat_train_df.cols[k][r] = 1 <=> ref0.data[c][r] = <<>>
                      /\ \A r \in 1..held0.nrows :
                            env.cat_test_df.cols[k][r] = 1 <=> held0.data[c][r] = <<>>
          /\ \A c \in Range(ref0.columns) \ Range(env.X_train_cat.columns) :
                MissingIndicator(env.cat_train_df, c) = {}

\* both tables are encoded; a surviving column has a missing entry in the
\* reference table and in the held-out table, and its "missing" indicator
\* is set in a held-out row
C17_Witness ==
    /\ Bound("cat_test_df")
    /\ \E c \in Range(env.X_train_cat.columns) :
          /\ NullCount(ref0, c) > 0
          /\ \E k \in MissingIndicator(env.cat_test_df, c) :
                \E r \in 1..held0.nrows :
                    held0.data[c][r] = <<>> /\ env.cat_test_df.cols[k][r] = 1

(***************************************************************************)
(* C19.  The penalty strength is supplied explicitly: no L1-penalized or   *)
(* L2-penalized trainer is ever constructed or fitted with a defaulted     *)
(* penalty strength.                                                       *)
(***************************************************************************)
PenalizedTrainers == {env[n] : n \in {"lasso", "ridge"} \cap DOMAIN env}

C19_PenaltyExplicit ==
    \A m \in PenalizedTrainers : m.alpha # <<"default">>

(***************************************************************************)
(* C20.  The split preserves row and column identity: the reference and    *)
(* the held-out table have the loaded table's columns, no row label in     *)
(* common, and together every row label of the loaded table exactly once;  *)
(* every row has the cells and the target value the loaded table has under *)
(* its label; and the split is the one the seed's permutation determines.  *)
(***************************************************************************)
Labels(T) == {T.index[k] : k \in 1..T.nrows}

\* the position of the row labelled l in the loaded table
Loaded(l) == CHOOSE i \in 1..env.X.nrows : env.X.index[i] = l

\* part is rows of the loaded table, each with its own cells and target
RowsKept(part, targets) ==
    /\ part.columns = env.X.columns
    /\ part.dtypes = env.X.dtypes
    /\ Len(targets) = part.nrows
    /\ \A k, q \in 1..part.nrows : part.index[k] = part.index[q] => k = q
    /\ \A k \in 1..part.nrows :
          /\ part.index[k] \in Labels(env.X)
          /\ \A c \in Range(env.X.columns) :
                part.data[c][k] = env.X.data[c][Loaded(part.index[k])]
          /\ targets[k] = env.y[Loaded(part.index[k])]
          /\ targets[k][1] = part.index[k]

C20_SplitPreservesIdentity ==
    Ran("split") =>
        /\ RowsKept(ref0, env.y_train)
        /\ RowsKept(held0, env.y_test)
        /\ Labels(ref0) \cap Labels(held0) = {}
        /\ Labels(ref0) \cup Labels(held0) = Labels(env.X)
        /\ ref0.nrows + held0.nrows = env.X.nrows
        /\ held0.nrows = n_test(env.X.nrows)
        /\ \A k \in 1..held0.nrows :
              held0.index[k] = env.X.index[env.RandomState_42[k]]
        /\ \A k \in 1..ref0.nrows :
              ref0.index[k] = env.X.index[env.RandomState_42[held0.nrows + k]]

\* the split has run with a permutation that moves rows, and both parts
\* have rows
C20_Witness ==
    /\ Ran("split")
    /\ ref0.nrows > 1
    /\ held0.nrows > 1
    /\ \E k \in 1..ref0.nrows : ref0.index[k] # k - 1
    /\ ref0.index[1] > ref0.index[2]
    /\ pc = "done"

(***************************************************************************)
(* C23.  The dominance rule is evaluated only over the object-typed        *)
(* columns that the null-ratio drop has left: cat_cols is the object-typed *)
(* columns of the reference table outside the null-ratio drop list, the    *)
(* dominance drop list is taken from cat_cols, so the two drop lists are   *)
(* disjoint, also for a column that both rules would select, and no        *)
(* column of another dtype is in the dominance drop list, however          *)
(* concentrated its values.                                                *)
(***************************************************************************)
\* the largest share of one value among the cells of column c that have one
Concentrated(T, c) ==
    \E v \in Range(T.data[c]) \ {<<>>} :
        10 * Cardinality({i \in 1..T.nrows : T.data[c][i] = v}) > 9 * T.nrows

C23_DominanceOverSurvivingObjects ==
    /\ Bound("cat_cols") =>
          Range(env.cat_cols) =
              {c \in Range(ref0.columns) \ Range(env.null_cols_to_drop) :
                  ref0.dtypes[c] = "object"}
    /\ Bound("col_to_drop") =>
          /\ Range(env.col_to_drop) \subseteq Range(env.cat_cols)
          /\ Range(env.col_to_drop) \cap Range(env.null_cols_to_drop) = {}
          /\ \A c \in Range(ref0.columns) :
                ref0.dtypes[c] # "object" => c \notin Range(env.col_to_drop)

\* the dominance rule has run on a table with a column that both rules select,
\* which is in the null-ratio drop list only, and with a numeric column of a
\* single value, which is in neither list
C23_Witness ==
    /\ Bound("col_to_drop")
    /\ \E c \in Range(env.null_cols_to_drop) : DominanceAbove(ref0, c)
    /\ \E c \in Range(env.num_cols) :
          /\ Concentrated(ref0, c)
          /\ c \notin DropSet

(***************************************************************************)
(* C24.  The null-ratio rule is evaluated on the raw reference table,      *)
(* before any missing value is replaced by 0 or by "missing".  So after    *)
(* the selection no surviving column has more than 0.10 of its reference   *)
(* rows imputed: a numeric column of the imputed block has a missing entry *)
(* in at most 0.10 of the raw reference rows, and in every surviving       *)
(* categorical column the cells holding the imputed token "missing" are    *)
(* those that were missing, at most 0.10 of the reference rows.            *)
(***************************************************************************)
\* the rows of column c of the filled categorical block holding "missing"
ImputedRows(c) ==
    {r \in 1..env.X_train_cat.nrows : env.X_train_cat.data[c][r] = <<missing_token>>}

C24_SurvivorsFewImputed ==
    /\ Bound("null_perc") => env.null_perc = isna_ratio(ref0)
    /\ Before("null_cols_to_drop", "imputer_fit")
    /\ Before("null_cols_to_drop", "fillna")
    /\ Bound("X_train_imputed") =>
          \A k \in DOMAIN env.num_cols :
              LET raw == {r \in 1..ref0.nrows : ref0.data[env.num_cols[k]][r] = <<>>}
              IN  /\ 10 * Cardinality(raw) <= ref0.nrows
                  /\ \A r \in raw : env.X_train_imputed.cols[k][r] = fill_value
    /\ Ran("fillna") =>
          \A c \in Range(env.X_train_cat.columns) :
              /\ ImputedRows(c) = {r \in 1..ref0.nrows : ref0.data[c][r] = <<>>}
              /\ 10 * Cardinality(ImputedRows(c)) <= ref0.nrows

\* the categorical block is filled: the null-ratio rule has dropped a column
\* and a surviving column has exactly 0.10 of its reference rows imputed
C24_Witness ==
    /\ Ran("fillna")
    /\ env.null_cols_to_drop # <<>>
    /\ \E c \in Range(env.num_cols) \cup Range(env.X_train_cat.columns) :
          10 * NullCount(ref0, c) = ref0.nrows

(***************************************************************************)
(* C25.  Every row of the reference categorical block has exactly one 1    *)
(* in the indicator set of each surviving categorical column.  So the      *)
(* indicators of each reference row sum to the number of surviving         *)
(* categorical columns, and the number of indicator columns is the sum,    *)
(* over the surviving categorical columns, of the number of distinct       *)
(* values (the token "missing" included) each has in the reference table.  *)
(***************************************************************************)
RECURSIVE SumOver(_, _)
\* the sum of f[x] over the x of the finite set S
SumOver(S, f) ==
    IF S = {} THEN 0
    ELSE LET x == CHOOSE e \in S : TRUE IN f[x] + SumOver(S \ {x}, f)

C25_OneIndicatorPerColumn ==
    Bound("cat_train_df") =>
        LET df   == env.cat_train_df
            surv == Range(env.X_train_cat.columns)
        IN  /\ \A r \in 1..df.nrows :
                  /\ \A c \in surv :
                        Cardinality({k \in IndicatorSet(df, c) : df.cols[k][r] = 1}) = 1
                  /\ SumOver(DOMAIN df.columns, [k \in DOMAIN df.columns |-> df.cols[k][r]])
                        = Cardinality(surv)
            /\ Len(df.columns)
                  = SumOver(surv, [c \in surv |-> Cardinality(Vocabulary(ref0, c))])

\* the reference categorical block is encoded: two categorical columns have
\* survived, one of them with a missing entry, and there are more indicator
\* columns than surviving columns
C25_Witness ==
    /\ Bound("cat_train_df")
    /\ Len(env.X_train_cat.columns) = 2
    /\ \E c \in Range(env.X_train_cat.columns) : NullCount(ref0, c) > 0
    /\ Len(env.cat_train_df.columns) > 3

(***************************************************************************)
(* C26.  num_cols and cat_cols are disjoint.  When every column that       *)
(* survives the null-ratio drop has dtype int64, float64 or object, the    *)
(* two lists together hold every surviving column exactly once.  A         *)
(* surviving column of any other dtype is in neither list, and the run     *)
(* goes on without it: the feature table has one column per numeric        *)
(* column of num_cols and indicator columns of categorical columns only.   *)
(***************************************************************************)
ListedDtypes == num_types \cup {"object"}

\* the surviving columns that neither list takes
Unlisted == {c \in Range(env.X_train.columns) : env.X_train.dtypes[c] \notin ListedDtypes}

C26_TypedListsPartition ==
    /\ Bound("cat_cols") =>
          /\ Range(env.num_cols) \cap Range(env.cat_cols) = {}
          /\ Unlisted = {} =>
                /\ Range(env.num_cols) \cup Range(env.cat_cols) = Range(env.X_train.columns)
                /\ Len(env.num_cols) + Len(env.cat_cols) = Len(env.X_train.columns)
          /\ Unlisted \cap (Range(env.num_cols) \cup Range(env.cat_cols)) = {}
    /\ (Unlisted # {} /\ Named = {}) => err = <<>>
    /\ Bound("X_train_all") =>
          LET names == env.X_train_all.columns
          IN  /\ Cardinality({k \in DOMAIN names : Len(names[k]) = 1}) = Len(env.num_cols)
              /\ \A k \in DOMAIN names :
                    Len(names[k]) = 2 => names[k][1] \in Range(env.cat_cols)

\* the feature table is assembled from a reference table with a surviving
\* bool column, and no statement has raised
C26_Witness ==
    /\ Bound("X_train_all")
    /\ err = <<>>
    /\ \E c \in Range(env.X_train.columns) : env.X_train.dtypes[c] = "bool"

(***************************************************************************)
(* The scaler in float64.  scaler.fit_transform and scaler.transform work  *)
(* on float64 arrays: every division, product and sum is rounded to the    *)
(* nearest float64, ties to even.  A natural number is kept here as its    *)
(* binary digits, least significant first (<<>> is 0), and a finite        *)
(* float64 as [sign, mant, exp] of value sign * mant * 2^exp with mant odd *)
(* and of at most Significand digits, or mant = <<>> for 0.  Exponent      *)
(* overflow, subnormals, infinities and NaN do not occur for the values    *)
(* of the model and are not represented.                                   *)
(***************************************************************************)
\* the significand of a float64 has 53 binary digits
Significand == 53

RECURSIVE BitsOf(_)
\* the binary digits of the natural number n
BitsOf(n) == IF n = 0 THEN <<>> ELSE <<n % 2>> \o BitsOf(n \div 2)

RECURSIVE Trim(_)
\* b without its leading (most significant) zeros
Trim(b) == IF b = <<>> \/ b[Len(b)] = 1 THEN b ELSE Trim(SubSeq(b, 1, Len(b) - 1))

Zeros(k) == [i \in 1..k |-> 0]

RECURSIVE AddBits(_, _, _)
\* a + b + carry
AddBits(a, b, carry) ==
    IF a = <<>> /\ b = <<>> THEN BitsOf(carry)
    ELSE LET x == IF a = <<>> THEN 0 ELSE a[1]
             y == IF b = <<>> THEN 0 ELSE b[1]
             t == x + y + carry
         IN  <<t % 2>> \o AddBits(IF a = <<>> THEN a ELSE Tail(a),
                                  IF b = <<>> THEN b ELSE Tail(b), t \div 2)

RECURSIVE SubBits(_, _, _)
\* a - b - borrow, for a >= b + borrow
SubBits(a, b, borrow) ==
    IF a = <<>> THEN <<>>
    ELSE LET y == IF b = <<>> THEN 0 ELSE b[1]
             t == a[1] - y - borrow
         IN  <<t % 2>> \o SubBits(Tail(a), IF b = <<>> THEN b ELSE Tail(b),
                                  IF t < 0 THEN 1 ELSE 0)

RECURSIVE MulBits(_, _, _)
\* a * n + carry, for a natural number n
MulBits(a, n, carry) ==
    IF a = <<>> THEN BitsOf(carry)
    ELSE LET t == a[1] * n + carry
         IN  <<t % 2>> \o MulBits(Tail(a), n, t \div 2)

RECURSIVE LessBits(_, _)
\* a < b, for a and b without leading zeros
LessBits(a, b) ==
    IF Len(a) # Len(b) THEN Len(a) < Len(b)
    ELSE IF a = <<>> THEN FALSE
    ELSE IF a[Len(a)] # b[Len(b)] THEN a[Len(a)] < b[Len(b)]
    ELSE LessBits(SubSeq(a, 1, Len(a) - 1), SubSeq(b, 1, Len(b) - 1))

RECURSIVE Odd(_, _)
\* mant * 2^exp with the trailing zeros of mant moved into the exponent
Odd(mant, exp) ==
    IF mant = <<>> THEN [mant |-> <<>>, exp |-> 0]
    ELSE IF mant[1] = 1 THEN [mant |-> mant, exp |-> exp]
    ELSE Odd(Tail(mant), exp + 1)

\* the float64 nearest to sign * mant * 2^exp, ties to even
Round64(sign, mant, exp) ==
    LET m == Trim(mant)
        k == Len(m) - Significand
    IN  IF m = <<>> THEN [sign |-> 1, mant |-> <<>>, exp |-> 0]
        ELSE IF k <= 0 THEN [sign |-> sign] @@ Odd(m, exp)
        ELSE LET high   == SubSeq(m, k + 1, Len(m))
                 half   == m[k] = 1
                 sticky == \E i \in 1..(k - 1) : m[i] = 1
                 up     == half /\ (sticky \/ high[1] = 1)
             IN  [sign |-> sign]
                    @@ Odd(IF up THEN AddBits(high, <<>>, 1) ELSE high, exp + k)

\* the float64 of the integer n
Float64Of(n) == Round64(IF n < 0 THEN -1 ELSE 1, BitsOf(Abs(n)), 0)

RECURSIVE Quotient(_, _, _)
\* the first k binary digits after the point of r / d, for r < d, most
\* significant first, followed by a digit that is 1 iff digits remain
Quotient(r, d, k) ==
    IF k = 0 THEN <<IF r = 0 THEN 0 ELSE 1>>
    ELSE <<(2 * r) \div d>> \o Quotient((2 * r) % d, d, k - 1)

Reverse(q) == [i \in 1..Len(q) |-> q[Len(q) + 1 - i]]

\* the float64 quotient n / d of the float64 of two integers, n >= 0, d > 0
Div64(n, d) ==
    LET k    == Significand + Len(BitsOf(d)) + 2
        frac == Quotient(n % d, d, k)
    IN  Round64(1, Reverse(frac) \o BitsOf(n \div d), -(k + 1))

\* the float64 product of x and the float64 of the integer n
Mul64(x, n) ==
    Round64(IF n < 0 THEN -x.sign ELSE x.sign, MulBits(x.mant, Abs(n), 0), x.exp)

Neg64(x) == IF x.mant = <<>> THEN x ELSE [x EXCEPT !.sign = -x.sign]

\* the float64 sum of x and y
Add64(x, y) ==
    LET e == IF x.exp < y.exp THEN x.exp ELSE y.exp
        a == Zeros(x.exp - e) \o x.mant
        b == Zeros(y.exp - e) \o y.mant
    IN  IF x.mant = <<>> THEN y
        ELSE IF y.mant = <<>> THEN x
        ELSE IF x.sign = y.sign THEN Round64(x.sign, AddBits(a, b, 0), e)
        ELSE IF LessBits(a, b) THEN Round64(y.sign, SubBits(b, a, 0), e)
        ELSE Round64(x.sign, SubBits(a, b, 0), e)

\* MinMaxScaler().fit(X) on a float64 array X of integer values
MinMaxScaler_fit64(X) ==
    LET k     == Len(X.cols)
        dmin  == [i \in 1..k |-> SeqMin(X.cols[i])]
        dmax  == [i \in 1..k |-> SeqMax(X.cols[i])]
        scale == [i \in 1..k |->
                    Div64(feature_range[2] - feature_range[1],
                          handle_zeros_in_scale(dmax[i] - dmin[i]))]
    IN  [data_min_ |-> dmin,
         data_max_ |-> dmax,
         scale_    |-> scale,
         min_      |-> [i \in 1..k |->
                          Add64(Float64Of(feature_range[1]),
                                Neg64(Mul64(scale[i], dmin[i])))]]

\* faulty variant: X *= scale_, the offset min_ left out
MinMaxScaler_transform64_no_offset(sc, X) ==
    [nrows |-> X.nrows,
     cols  |-> [i \in 1..Len(X.cols) |->
                  [r \in 1..X.nrows |-> Mul64(sc.scale_[i], X.cols[i][r])]]]

\* scaler.transform(X) on a float64 array X of integer values: X *= scale_; X += min_
MinMaxScaler_transform64(sc, X) ==
    [nrows |-> X.nrows,
     cols  |-> [i \in 1..Len(X.cols) |->
                  [r \in 1..X.nrows |->
                      Add64(Mul64(sc.scale_[i], X.cols[i][r]), sc.min_[i])]]]

(***************************************************************************)
(* The scaler cells on one numeric column, in float64.  The reference      *)
(* column has FloatRows integer values and no missing entry (with so few   *)
(* rows one missing entry is above the null-ratio threshold and the column *)
(* would not reach the scaler); the held-out column has one value outside  *)
(* the reference values.                                                   *)
(***************************************************************************)
FloatRows == 3
MaxVal == 6
FloatVals == -2..MaxVal

FloatTable(col) ==
    [columns |-> <<"n1">>, nrows |-> Len(col), dtypes |-> [n1 |-> "float64"],
     data |-> [n1 |-> [i \in DOMAIN col |-> <<col[i]>>]]]

InitFloat ==
    /\ pc = "scaler_fit"
    /\ err = <<>>
    /\ trace = <<>>
    /\ ref0 \in {FloatTable(col) : col \in [1..FloatRows -> FloatVals]}
    /\ held0 \in {FloatTable(<<v>>) : v \in {-3, MaxVal + 1}}
    /\ env = [num_cols        |-> <<"n1">>,
              imputer         |-> SimpleImputer_fit(ref0),
              X_train_imputed |-> SimpleImputer_transform(SimpleImputer_fit(ref0), ref0),
              X_test_imputed  |-> SimpleImputer_transform(SimpleImputer_fit(ref0), held0)]

\* scaler = MinMaxScaler(); X_train_imsc = scaler.fit_transform(X_train_imputed)
Stmt_scaler_fit64 ==
    /\ pc = "scaler_fit"
    /\ LET fitted == MinMaxScaler_fit64(env.X_train_imputed)
       IN  Assign("scaler_fit", "scaler_transform",
                  [scaler |-> fitted,
                   X_train_imsc |-> MinMaxScaler_transform64(fitted, env.X_train_imputed)])

\* X_test_imsc = scaler.transform(X_test_imputed)
Stmt_scaler_transform64 ==
    /\ pc = "scaler_transform"
    /\ IF MinMaxScaler_transform_ok(env.scaler, env.X_test_imputed)
       THEN Assign("scaler_transform", "cat_cols",
                   [X_test_imsc |->
                       MinMaxScaler_transform64(env.scaler, env.X_test_imputed)])
       ELSE Raise("scaler_transform", "ValueError")

NextFloat == Stmt_scaler_fit64 \/ Stmt_scaler_transform64

SpecFloat == InitFloat /\ [][NextFloat]_vars

(***************************************************************************)
(* C27.  The bounds of the transformed reference table, under SpecFloat.   *)
(***************************************************************************)
Zero64 == Float64Of(0)
One64 == Float64Of(1)

\* the rows of the k-th scaled reference column equal to the float64 q
RowsAt(k, q) == {r \in 1..env.X_train_imsc.nrows : env.X_train_imsc.cols[k][r] = q}

\* the rows of the reference column c holding the filled value v
RowsOf(c, v) == {r \in 1..ref0.nrows : Filled(ref0.data[c][r]) = v}

(* C27 as claimed: in the transformed reference table every numeric column *)
(* whose filled values are not all equal has at least one row of value     *)
(* exactly 0 and at least one row of value exactly 1.                      *)
C27_BothBoundsAttained ==
    Bound("X_train_imsc") =>
        \A k \in DOMAIN env.num_cols :
            ~Degenerate(env.num_cols[k]) =>
                /\ RowsAt(k, Zero64) # {}
                /\ RowsAt(k, One64) # {}

\* x <= y for two float64
Leq64(x, y) == LET d == Add64(y, Neg64(x)) IN d.mant = <<>> \/ d.sign = 1

\* |x| * n <= m * 2^e, for a float64 x and natural numbers n and m
WithinScaled(x, n, m, e) ==
    LET lo == IF x.exp < e THEN x.exp ELSE e
        a  == Trim(Zeros(x.exp - lo) \o MulBits(x.mant, n, 0))
        b  == Trim(Zeros(e - lo) \o BitsOf(m))
    IN  ~LessBits(b, a)

(* C27 as amended: in the transformed reference table every numeric column *)
(* whose filled values are not all equal attains the lower bound exactly   *)
(* and the upper bound up to float64 rounding: the rows holding the        *)
(* column's filled minimum have value exactly 0, and the rows holding its  *)
(* filled maximum have the column's largest value, which differs from 1 by *)
(* at most (2 + (|min| + |max|) / (max - min)) * 2^-52 and is not always   *)
(* exactly 1.                                                              *)
C27_LowerExactUpperRounded ==
    Bound("X_train_imsc") =>
        \A k \in DOMAIN env.num_cols :
            LET c   == env.num_cols[k]
                lo  == MinOf(FilledValues(ref0, c))
                hi  == MaxOf(FilledValues(ref0, c))
                out == env.X_train_imsc.cols[k]
            IN  ~Degenerate(c) =>
                    /\ \A r \in RowsOf(c, lo) : out[r] = Zero64
                    /\ \A r \in RowsOf(c, hi) :
                          /\ \A q \in DOMAIN out : Leq64(out[q], out[r])
                          /\ WithinScaled(Add64(out[r], Neg64(One64)), hi - lo,
                                          2 * (hi - lo) + Abs(lo) + Abs(hi), -52)

\* the reference column is scaled: its minimum row is 0, its maximum row is
\* not 1, and a third row lies strictly between them
C27_Witness ==
    /\ Bound("X_train_imsc")
    /\ ~Degenerate("n1")
    /\ RowsAt(1, Zero64) # {}
    /\ RowsAt(1, One64) = {}
    /\ \E r \in 1..ref0.nrows :
          /\ ~Leq64(env.X_train_imsc.cols[1][r], Zero64)
          /\ \E q \in 1..ref0.nrows :
                ~Leq64(env.X_train_imsc.cols[1][q], env.X_train_imsc.cols[1][r])

(***************************************************************************)
(* C28.  Which of several tied values counts as the most frequent does not *)
(* change the drop-set: a categorical column is in the dominance drop list *)
(* exactly if the ratio of any one of its most frequent values is above    *)
(* 0.90, and when two or more values tie for most frequent that ratio is   *)
(* at most 0.5, so the column is kept whichever of them is taken.          *)
(***************************************************************************)
\* the values of column c (missing read as "missing") that no value outnumbers
MostFrequent(c) ==
    {v \in Vocabulary(ref0, c) :
        \A w \in Vocabulary(ref0, c) : TokenCount(ref0, c, w) <= TokenCount(ref0, c, v)}

C28_TieBreakIrrelevant ==
    Bound("col_to_drop") =>
        \A c \in Range(env.cat_cols) :
            /\ \A v \in MostFrequent(c) :
                  c \in Range(env.col_to_drop)
                      <=> 10 * TokenCount(ref0, c, v) > 9 * ref0.nrows
            /\ Cardinality(MostFrequent(c)) > 1 =>
                  /\ \A v \in MostFrequent(c) : 2 * TokenCount(ref0, c, v) <= ref0.nrows
                  /\ c \notin Range(env.col_to_drop)

\* the dominance rule has run over a column in which two values tie for most
\* frequent, each in half of the rows, and has dropped another column
C28_Witness ==
    /\ Bound("col_to_drop")
    /\ env.col_to_drop # <<>>
    /\ \E c \in Range(env.cat_cols) :
          /\ Cardinality(MostFrequent(c)) = 2
          /\ \A v \in MostFrequent(c) : 2 * TokenCount(ref0, c, v) = ref0.nrows

(***************************************************************************)
(* C5.  Fitting the numeric transformer on the reference table and         *)
(* transforming that table, under SpecFloat.                               *)
(***************************************************************************)
InUnitInterval(q) == Leq64(Zero64, q) /\ Leq64(q, One64)

(* C5 as claimed: the transformed reference table has, in every column     *)
(* whose filled values are not all equal, only values in [0, 1], and in    *)
(* every column whose filled values are all equal the same value in every  *)
(* row.                                                                    *)
C5_ScaledReferenceInUnitInterval ==
    Bound("X_train_imsc") =>
        \A i \in DOMAIN env.num_cols :
            LET out == env.X_train_imsc.cols[i]
            IN  IF Cardinality(FilledValues(ref0, env.num_cols[i])) > 1
                THEN \A r \in DOMAIN out : InUnitInterval(out[r])
                ELSE \A r, q \in DOMAIN out : out[r] = out[q]

(* C5 as amended: the transformed reference table has, in every column     *)
(* whose filled values are not all equal, only values that are at least 0  *)
(* and at most 1 up to float64 rounding, that is either at most 1 or above *)
(* 1 by at most (2 + (|min| + |max|) / (max - min)) * 2^-52; in every      *)
(* column whose filled values are all equal it has the same value in every *)
(* row.                                                                    *)
C5_ScaledReferenceNearUnitInterval ==
    Bound("X_train_imsc") =>
        \A i \in DOMAIN env.num_cols :
            LET c   == env.num_cols[i]
                lo  == MinOf(FilledValues(ref0, c))
                hi  == MaxOf(FilledValues(ref0, c))
                out == env.X_train_imsc.cols[i]
            IN  IF Cardinality(FilledValues(ref0, c)) > 1
                THEN \A r \in DOMAIN out :
                        /\ Leq64(Zero64, out[r])
                        /\ \/ Leq64(out[r], One64)
                           \/ WithinScaled(Add64(out[r], Neg64(One64)), hi - lo,
                                           2 * (hi - lo) + Abs(lo) + Abs(hi), -52)
                ELSE \A r, q \in DOMAIN out : out[r] = out[q]

\* the reference column is scaled: it has a row of value 0, a row of value
\* above 1 and a row of a value strictly between 0 and 1
C5_Witness ==
    /\ Bound("X_train_imsc")
    /\ \E r \in 1..ref0.nrows : env.X_train_imsc.cols[1][r] = Zero64
    /\ \E r \in 1..ref0.nrows : ~Leq64(env.X_train_imsc.cols[1][r], One64)
    /\ \E r \in 1..ref0.nrows :
          /\ ~Leq64(env.X_train_imsc.cols[1][r], Zero64)
          /\ ~Leq64(One64, env.X_train_imsc.cols[1][r])
====
